---- MODULE Spec2Model ----
(***************************************************************************)
(* HopperKV: the per-tenant request pipeline (GET/SET/SETC with inflight   *)
(* deduplication, the storage worker and the upstream completions), the    *)
(* rate limiter, and the HARE allocator.                                   *)
(*                                                                         *)
(* Three specifications share this module:                                 *)
(*   Spec       the request pipeline  (redis_module/get.cpp, set.cpp,      *)
(*              inflight.cpp, storage.cpp, task.h)                         *)
(*   SpecRate   one rate limiter      (redis_module/rate.h)                *)
(*   SpecAlloc  the allocator         (alloc/engine/alloc.h, tenant.h,     *)
(*              mrc.h, resrc.h)                                            *)
(***************************************************************************)
EXTENDS Integers, Sequences, FiniteSets, TLC

(***************************************************************************)
(* Bounds of the pipeline model.                                           *)
(***************************************************************************)
MaxKeys == 1
MaxVal == 2
MaxClients == 3

Keys == 1..MaxKeys
\* values a client may write; V0 is the value the upstream table starts with
V0 == 0
Values == 1..MaxVal
ClientIds == 1..MaxClients

\* encodings of non-value slots, replies and private data (all integers, so
\* that they compare with values)
KEY_EMPTY == -1      \* REDISMODULE_KEYTYPE_EMPTY: no slot for the key
NON_STRING == -2     \* a slot of a type other than REDISMODULE_KEYTYPE_STRING
NoReply == -10
ReplyOK == -11       \* "OK"
ReplyErr == -12      \* an error reply (ERR ..., WRONGTYPE)
NullData == -13      \* nullptr private data
ErrMsg == -14        \* an error message stored in task->value
NoTask == 0

VARIABLES
  admit_write,       \* config::cache::admit_write
  cache,             \* the Redis keyspace: key -> value | KEY_EMPTY | NON_STRING
  cache_src,         \* history: who wrote the slot last (<<kind, client>>)
  inflight_map,      \* inflight::inflight_map, as a set of <<key, task>>
  begin_assert_ok,   \* FALSE once begin_inflight's assertion has failed
  task,              \* the TaskGet/TaskSet objects, by owner client id
  task_get_queue,    \* storage::task_get_queue
  task_set_queue,    \* storage::task_set_queue
  upstream,          \* the DynamoDB table: key -> value
  client,            \* the (blocked) clients and what they were replied
  next_client,       \* number of commands issued so far
  mock,              \* config::dynamo::mock
  mock_dynamo_queue  \* storage::mock_dynamo_queue (the tasks, in order)

pipe_vars == <<admit_write, cache, cache_src, inflight_map, begin_assert_ok,
               task, task_get_queue, task_set_queue, upstream, client,
               next_client, mock, mock_dynamo_queue>>

mock_vars == <<mock, mock_dynamo_queue>>

\* one rate::RateLimiter and its caller; time is counted in ticks
VARIABLES
  rl_now,            \* std::chrono::high_resolution_clock::now()
  rl_rate,           \* rate
  rl_progress,       \* time_frame_progress
  rl_frame_begin,    \* time_frame_begin
  rl_proposed,       \* proposed_rate
  rl_wait,           \* what the last check_wait_time() returned, times rate
  rl_permit,         \* the caller holds a check_wait_time() <= 0 not yet used
  rl_total,          \* history: everything consumed since construction
  rl_nprop,          \* history: number of propose_new_rate calls
  rl_hist            \* history: the rates proposed since the last rollover
                     \* and those the last rollover found proposed

rate_vars == <<rl_now, rl_rate, rl_progress, rl_frame_begin, rl_proposed,
               rl_wait, rl_permit, rl_total, rl_nprop, rl_hist>>

\* the hare::Allocator, its tenants and the position inside do_alloc
VARIABLES
  policy,            \* Allocator::policy {harvest, conserving, memshare}
  alloc_total_net_bw, \* params::policy::alloc_total_net_bw
  tenants,           \* Allocator::tenants
  total_resrc,       \* Allocator::total_resrc
  resrc_avail,       \* do_alloc's resrc_avail
  improve_ratio,     \* do_alloc's return value
  harvest,           \* the locals of do_harvest
  alloc_pc,          \* position inside do_alloc
  alloc_hist         \* history: what the last step did

alloc_vars == <<policy, alloc_total_net_bw, tenants, total_resrc, resrc_avail,
                improve_ratio, harvest, alloc_pc, alloc_hist>>

\* one hare::MissRatioCurve and the queries made of it
VARIABLES
  mrc_curve,         \* MissRatioCurve::ticks, MissRatioCurve::miss_ratios
  mrc_last,          \* the last get_miss_ratio call: argument and result
  mrc_prev,          \* the call before it
  mrc_sane           \* what check_sanity threw, "ok" when it returned

mrc_vars == <<mrc_curve, mrc_last, mrc_prev, mrc_sane>>

\* ghost.cpp: the ghost cache, its configuration and its checkpoint file
VARIABLES
  ghost_config,      \* config::ghost::tick, min_tick, max_tick
  ghost_cache,       \* ghost::ghost_cache
  dump_ghc,          \* the file dump.ghc
  ghost_hist         \* history: the last save, return codes

ghost_vars == <<ghost_config, ghost_cache, dump_ghc, ghost_hist>>

\* barrier.cpp
VARIABLES
  waiting_clients,   \* barrier::waiting_clients
  barrier_client,    \* per client: blocked or not, replies, wakes
  barrier_hist       \* history: SIGNALs executed, WAITs since the last one

barrier_vars == <<waiting_clients, barrier_client, barrier_hist>>

\* resrc.cpp
VARIABLES
  allocated_resrc,   \* resrc::allocated_resrc
  maxmemory,         \* Redis's maxmemory (CONFIG SET MAXMEMORY)
  proposed_rate,     \* proposed_rate of the rcu, wcu and net limiters
  resrc_reply        \* the reply to the last RESRC command

resrc_vars == <<allocated_resrc, maxmemory, proposed_rate, resrc_reply>>

\* storage.cpp: the worker loop with the RCU and WCU limiters
VARIABLES
  wk_now,            \* the clock
  wk_mock,           \* config::dynamo::mock, and whether mock_image is set
  wk_limiter,        \* rcu_rate_limiter, wcu_rate_limiter
  wk_queue,          \* task_get_queue, task_set_queue, mock_dynamo_queue
  wk_task,           \* the tasks, with what each was charged
  wk_last            \* history: what the last iteration of the loop did

worker_vars == <<wk_now, wk_mock, wk_limiter, wk_queue, wk_task, wk_last>>

\* rate.h: one limiter with its time frame computed in doubles
VARIABLES
  fr_now,            \* the clock, in ticks
  fr_limiter,        \* the RateLimiter
  fr_last            \* history: the limiter before the last check_wait_time

frame_vars == <<fr_now, fr_limiter, fr_last>>

\* the command thread with its accounting: stats.cpp, network.cpp
VARIABLES
  resrc_stats,       \* stats::resrc_stats
  net_rate_limiter,  \* network::net_rate_limiter
  cmd_now            \* the clock of the command thread

cmd_vars == <<resrc_stats, net_rate_limiter, cmd_now>>

\* collect_idle on doubles: one call
VARIABLES
  collect_call       \* the tenant before the call, after it, and the idle
                     \* vector returned

\* task.h: one TaskQueue with the command thread pushing and the worker
\* thread popping
VARIABLES
  tq                 \* queue_lock, queue, where each thread is, and history

\* storage.cpp: the worker thread as a thread
VARIABLES
  storage_worker     \* storage_thread_running, storage_thread, db

\* config.cpp, storage.cpp: what CONFIG.SET sets besides admit_write, mock
\* and the ghost range
VARIABLES
  config             \* dynamo::table, mock_image, mock_format, the last call

\* the variables added last
post_vars == <<collect_call, tq, storage_worker, config>>

\* the groups added last
late_vars == <<cmd_vars, post_vars>>

not_post == <<pipe_vars, rate_vars, alloc_vars, mrc_vars, ghost_vars,
              barrier_vars, resrc_vars, worker_vars, frame_vars, cmd_vars>>

\* the groups added after the barrier
more_vars == <<resrc_vars, worker_vars, frame_vars, late_vars>>

\* everything outside the pipeline, the limiter and the allocator
aux_vars == <<mrc_vars, ghost_vars, barrier_vars, more_vars>>

not_resrc == <<pipe_vars, rate_vars, alloc_vars, mrc_vars, ghost_vars,
               barrier_vars, worker_vars, frame_vars, late_vars>>

not_worker == <<pipe_vars, rate_vars, alloc_vars, mrc_vars, ghost_vars,
                barrier_vars, resrc_vars, frame_vars, late_vars>>

not_frame == <<pipe_vars, rate_vars, alloc_vars, mrc_vars, ghost_vars,
               barrier_vars, resrc_vars, worker_vars, late_vars>>

vars == <<pipe_vars, rate_vars, alloc_vars, aux_vars>>

NoTaskRec == [type |-> "none", key |-> 0, value |-> NullData, status |-> "NONE",
              dependents |-> <<>>, stage |-> "none", set_seen |-> FALSE,
              update_cache |-> FALSE, born |-> 0, via_mock |-> FALSE]

NoClientRec == [cmd |-> "none", key |-> 0, role |-> "none", waits |-> NoTask,
                unblocks |-> 0, privdata |-> NullData, reply |-> NoReply]

(***************************************************************************)
(* inflight.cpp                                                            *)
(***************************************************************************)
\* std::unordered_map::contains
check_inflight(map, key) == \E p \in map : p[1] = key

\* the task registered for the key (only used when check_inflight holds)
inflight_task(map, key) == (CHOOSE p \in map : p[1] = key)[2]

\* inflight_map[key] = t: operator[] replaces an existing mapping
begin_inflight(map, key, t) == {p \in map : p[1] # key} \cup {<<key, t>>}

\* the assertion of begin_inflight
begin_inflight_assert(map, key) == ~check_inflight(map, key)

\* the return value of end_inflight
end_inflight(map, key, t) == <<key, t>> \in map

\* end_inflight that erases whatever is stored for the key
end_inflight_map_any(map, key, t) == {p \in map : p[1] # key}

\* the registry after end_inflight
end_inflight_map(map, key, t) ==
  IF <<key, t>> \in map THEN map \ {<<key, t>>} ELSE map

\* inflight_map.erase(key)
invalidate_inflight(map, key) == {p \in map : p[1] # key}

\* add_dependent that loses the client
add_dependent_lost(tk, map, key, bc) == tk

\* TaskGet::add_dependent through inflight::add_dependent
add_dependent(tk, map, key, bc) ==
  LET t == inflight_task(map, key)
  IN  [tk EXCEPT ![t].dependents = Append(@, bc)]

(***************************************************************************)
(* Initial state of the pipeline: empty cache, table holding V0.           *)
(* cache.admit_write is true and dynamo.mock false by default (config.cpp); *)
(* each is whatever CONFIG.SET left it at before the first command.        *)
(***************************************************************************)
PipeInit ==
  /\ admit_write \in BOOLEAN
  /\ cache = [k \in Keys |-> KEY_EMPTY]
  /\ cache_src = [k \in Keys |-> <<"none", 0>>]
  /\ inflight_map = {}
  /\ begin_assert_ok = TRUE
  /\ task = [c \in ClientIds |-> NoTaskRec]
  /\ task_get_queue = <<>>
  /\ task_set_queue = <<>>
  /\ upstream = [k \in Keys |-> V0]
  /\ client = [c \in ClientIds |-> NoClientRec]
  /\ next_client = 0
  /\ mock \in BOOLEAN
  /\ mock_dynamo_queue = <<>>

IsString(v) == v >= 0

\* marks every registered-and-unfinished Get task on the key as having seen a
\* SET (history only)
MarkSetSeen(tk, key) ==
  [c \in ClientIds |->
     IF tk[c].type = "GET" /\ tk[c].key = key /\ tk[c].stage # "done"
       THEN [tk[c] EXCEPT !.set_seen = TRUE] ELSE tk[c]]

(***************************************************************************)
(* get.cpp: RedisModule_HopperGet                                          *)
(***************************************************************************)
\* a handler that never looks at the registry
HopperGet_has_inflight_never(map, key) == FALSE

\* has_inflight as computed by the handler
HopperGet_has_inflight(map, key) == check_inflight(map, key)

HopperGet(k) ==
  /\ next_client < MaxClients
  /\ LET c == next_client + 1 IN
     /\ next_client' = c
     /\ IF cache[k] = KEY_EMPTY THEN
          \* miss
          IF HopperGet_has_inflight(inflight_map, k) THEN
            /\ task' = add_dependent(task, inflight_map, k, c)
            /\ client' = [client EXCEPT ![c] =
                 [NoClientRec EXCEPT !.cmd = "get", !.key = k, !.role = "dep",
                    !.waits = inflight_task(inflight_map, k)]]
            /\ UNCHANGED <<inflight_map, begin_assert_ok, task_get_queue>>
          ELSE
            /\ task' = [task EXCEPT ![c] =
                 [NoTaskRec EXCEPT !.type = "GET", !.key = k,
                    !.stage = "queued", !.born = c]]
            /\ begin_assert_ok' =
                 (begin_assert_ok /\ begin_inflight_assert(inflight_map, k))
            /\ inflight_map' = begin_inflight(inflight_map, k, c)
            /\ task_get_queue' = Append(task_get_queue, c)
            /\ client' = [client EXCEPT ![c] =
                 [NoClientRec EXCEPT !.cmd = "get", !.key = k,
                    !.role = "owner", !.waits = c]]
        ELSE IF cache[k] = NON_STRING THEN
          /\ client' = [client EXCEPT ![c] =
               [NoClientRec EXCEPT !.cmd = "get", !.key = k,
                  !.role = "wrongtype", !.reply = ReplyErr]]
          /\ UNCHANGED <<task, inflight_map, begin_assert_ok, task_get_queue>>
        ELSE
          \* hit: reply from the slot
          /\ client' = [client EXCEPT ![c] =
               [NoClientRec EXCEPT !.cmd = "get", !.key = k, !.role = "hit",
                  !.reply = cache[k]]]
          /\ UNCHANGED <<task, inflight_map, begin_assert_ok, task_get_queue>>
  /\ UNCHANGED <<rate_vars, alloc_vars, aux_vars, mock_vars, admit_write, cache, cache_src, task_set_queue, upstream>>

(***************************************************************************)
(* set.cpp: RedisModule_HopperSet                                          *)
(***************************************************************************)
\* a handler that only ever overwrites an existing string slot
HopperSet_updates_cache_existing(slot, admit) == IsString(slot)

\* whether the handler overwrites the slot and invalidates the inflight entry
HopperSet_updates_cache(slot, admit) ==
  IsString(slot) \/ (slot = KEY_EMPTY /\ admit)

HopperSet(k, v) ==
  /\ next_client < MaxClients
  /\ LET c == next_client + 1 IN
     /\ next_client' = c
     /\ IF cache[k] = NON_STRING THEN
          /\ client' = [client EXCEPT ![c] =
               [NoClientRec EXCEPT !.cmd = "set", !.key = k,
                  !.role = "wrongtype", !.reply = ReplyErr]]
          /\ UNCHANGED <<cache, cache_src, inflight_map, task, task_set_queue>>
        ELSE
          /\ IF HopperSet_updates_cache(cache[k], admit_write) THEN
               /\ cache' = [cache EXCEPT ![k] = v]
               /\ cache_src' = [cache_src EXCEPT ![k] = <<"set", c>>]
               /\ inflight_map' = invalidate_inflight(inflight_map, k)
             ELSE
               UNCHANGED <<cache, cache_src, inflight_map>>
          /\ task' = [MarkSetSeen(task, k) EXCEPT ![c] =
               [NoTaskRec EXCEPT !.type = "SET", !.key = k, !.value = v,
                  !.stage = "queued", !.born = c]]
          /\ task_set_queue' = Append(task_set_queue, c)
          /\ client' = [client EXCEPT ![c] =
               [NoClientRec EXCEPT !.cmd = "set", !.key = k, !.role = "owner",
                  !.waits = c]]
  /\ UNCHANGED <<rate_vars, alloc_vars, aux_vars, mock_vars, admit_write, begin_assert_ok, task_get_queue, upstream>>

(***************************************************************************)
(* set.cpp: RedisModule_HopperSetC                                         *)
(***************************************************************************)
HopperSetC(k, v) ==
  /\ next_client < MaxClients
  /\ LET c == next_client + 1 IN
     /\ next_client' = c
     /\ IF cache[k] = NON_STRING THEN
          /\ client' = [client EXCEPT ![c] =
               [NoClientRec EXCEPT !.cmd = "setc", !.key = k,
                  !.role = "wrongtype", !.reply = ReplyErr]]
          /\ UNCHANGED <<cache, cache_src>>
        ELSE
          /\ cache' = [cache EXCEPT ![k] = v]
          /\ cache_src' = [cache_src EXCEPT ![k] = <<"setc", c>>]
          /\ client' = [client EXCEPT ![c] =
               [NoClientRec EXCEPT !.cmd = "setc", !.key = k, !.role = "hit",
                  !.reply = ReplyOK]]
  /\ UNCHANGED <<rate_vars, alloc_vars, aux_vars, mock_vars, admit_write, inflight_map, begin_assert_ok, task,
                 task_get_queue, task_set_queue, upstream>>

(***************************************************************************)
(* The host evicts a key (maxmemory), or a native command stores a value   *)
(* of another type under the key.                                          *)
(***************************************************************************)
Evict(k) ==
  /\ cache[k] # KEY_EMPTY
  /\ cache' = [cache EXCEPT ![k] = KEY_EMPTY]
  /\ cache_src' = [cache_src EXCEPT ![k] = <<"evict", 0>>]
  /\ UNCHANGED <<rate_vars, alloc_vars, aux_vars, mock_vars, admit_write, inflight_map, begin_assert_ok, task,
                 task_get_queue, task_set_queue, upstream, client, next_client>>

NativeNonStringWrite(k) ==
  /\ cache[k] = KEY_EMPTY
  /\ cache' = [cache EXCEPT ![k] = NON_STRING]
  /\ cache_src' = [cache_src EXCEPT ![k] = <<"native", 0>>]
  /\ UNCHANGED <<rate_vars, alloc_vars, aux_vars, mock_vars, admit_write, inflight_map, begin_assert_ok, task,
                 task_get_queue, task_set_queue, upstream, client, next_client>>

(***************************************************************************)
(* storage.cpp: one iteration of storage_thread_main that does work.  The  *)
(* two booleans are the outcomes of the limiters' check_wait_time() <= 0,  *)
(* which this specification leaves open (SpecRate models the limiter).     *)
(***************************************************************************)
storage_thread_main(rcu_ok, wcu_ok) ==
  LET popG == rcu_ok /\ task_get_queue # <<>>
      popS == wcu_ok /\ task_set_queue # <<>>
  IN  /\ popG \/ popS
      /\ task_get_queue' = IF popG THEN Tail(task_get_queue) ELSE task_get_queue
      /\ task_set_queue' = IF popS THEN Tail(task_set_queue) ELSE task_set_queue
      /\ task' = [c \in ClientIds |->
           IF (popG /\ c = Head(task_get_queue)) \/
              (popS /\ c = Head(task_set_queue))
             THEN [task[c] EXCEPT !.stage =
                     IF mock THEN "mocked" ELSE "submitted",
                                  !.via_mock = mock]
             ELSE task[c]]
      \* process_task_get / process_task_set: with dynamo.mock the task goes
      \* to mock_dynamo_queue instead of the upstream client
      /\ mock_dynamo_queue' =
           IF mock
             THEN mock_dynamo_queue \o
                    (IF popG THEN <<Head(task_get_queue)>> ELSE <<>>) \o
                    (IF popS THEN <<Head(task_set_queue)>> ELSE <<>>)
             ELSE mock_dynamo_queue
      /\ UNCHANGED <<rate_vars, alloc_vars, aux_vars, mock, admit_write, cache, cache_src, inflight_map,
                     begin_assert_ok, upstream, client, next_client>>

\* RedisModule_UnblockClient(bc, privdata)
UnblockClient(cl, bc, data) ==
  [cl EXCEPT ![bc].unblocks = @ + 1, ![bc].privdata = data]

(***************************************************************************)
(* storage.cpp: the completion callbacks handed to getAsync / putAsync     *)
(* (process_task_get, process_task_set).  They run on a thread of the      *)
(* upstream client; the table is read or written when the request          *)
(* completes.                                                              *)
(***************************************************************************)
process_task_get_success(t) ==
  /\ task[t].type = "GET" /\ task[t].stage = "submitted"
  /\ task' = [task EXCEPT ![t].status = "OK",
                          ![t].value = upstream[task[t].key],
                          ![t].stage = "unblocked"]
  /\ client' = UnblockClient(client, t, NullData)
  /\ UNCHANGED <<rate_vars, alloc_vars, aux_vars, mock_vars, admit_write, cache, cache_src, inflight_map, begin_assert_ok,
                 task_get_queue, task_set_queue, upstream, next_client>>

process_task_get_failure(t) ==
  /\ task[t].type = "GET" /\ task[t].stage = "submitted"
  /\ task' = [task EXCEPT ![t].status = "ERR", ![t].value = ErrMsg,
                          ![t].stage = "unblocked"]
  /\ client' = UnblockClient(client, t, NullData)
  /\ UNCHANGED <<rate_vars, alloc_vars, aux_vars, mock_vars, admit_write, cache, cache_src, inflight_map, begin_assert_ok,
                 task_get_queue, task_set_queue, upstream, next_client>>

process_task_set_success(t) ==
  /\ task[t].type = "SET" /\ task[t].stage = "submitted"
  /\ upstream' = [upstream EXCEPT ![task[t].key] = task[t].value]
  /\ task' = [task EXCEPT ![t].status = "OK", ![t].stage = "unblocked"]
  /\ client' = UnblockClient(client, t, NullData)
  /\ UNCHANGED <<rate_vars, alloc_vars, aux_vars, mock_vars, admit_write, cache, cache_src, inflight_map, begin_assert_ok,
                 task_get_queue, task_set_queue, next_client>>

process_task_set_failure(t) ==
  /\ task[t].type = "SET" /\ task[t].stage = "submitted"
  /\ task' = [task EXCEPT ![t].status = "ERR", ![t].value = ErrMsg,
                          ![t].stage = "unblocked"]
  /\ client' = UnblockClient(client, t, NullData)
  /\ UNCHANGED <<rate_vars, alloc_vars, aux_vars, mock_vars, admit_write, cache, cache_src, inflight_map, begin_assert_ok,
                 task_get_queue, task_set_queue, upstream, next_client>>

(***************************************************************************)
(* storage.cpp: process_mock_dynamo, the part of a storage_thread_main     *)
(* iteration that serves the head of mock_dynamo_queue once its ready time *)
(* has passed (time is left open, so the head may be served at any step).  *)
(* A GET finds the key (in the image, or by the key format) or not; a SET  *)
(* always succeeds.  The mocked table never holds what a SET wrote: a GET  *)
(* returns a value synthesized from the key or from the stored size.       *)
(***************************************************************************)
\* a mocked GET that leaves the status untouched when the key is not found
process_mock_dynamo_get_status_unset(found) == IF found THEN "OK" ELSE "NONE"

\* the status a mocked GET ends with
process_mock_dynamo_get_status(found) == IF found THEN "OK" ELSE "ERR"

\* make_mock_val / std::string(size, 'v'): a value made up by the mock
make_mock_val(key) == V0

process_mock_dynamo(found) ==
  /\ mock
  /\ mock_dynamo_queue # <<>>
  /\ LET t == Head(mock_dynamo_queue) IN
     /\ mock_dynamo_queue' = Tail(mock_dynamo_queue)
     /\ IF task[t].type = "GET" THEN
          task' = [task EXCEPT
            ![t].status = process_mock_dynamo_get_status(found),
            ![t].value = IF found THEN make_mock_val(task[t].key) ELSE ErrMsg,
            ![t].stage = "unblocked"]
        ELSE
          task' = [task EXCEPT ![t].status = "OK", ![t].stage = "unblocked"]
     /\ client' = UnblockClient(client, t, NullData)
  /\ UNCHANGED <<rate_vars, alloc_vars, aux_vars, mock, admit_write, cache, cache_src, inflight_map,
                 begin_assert_ok, task_get_queue, task_set_queue, upstream,
                 next_client>>

(***************************************************************************)
(* get.cpp: storage_callback, the reply callback of the client that owns   *)
(* a Get task; runs on the command thread.                                 *)
(***************************************************************************)
\* a callback that wakes the dependents only when it may update the cache
storage_callback_dependents_if_update(t_rec, update_cache) ==
  IF update_cache THEN t_rec.dependents ELSE <<>>

\* the dependents the callback unblocks (both the ERR and the OK path loop
\* over t->dependents)
storage_callback_dependents(t_rec, update_cache) == t_rec.dependents

RECURSIVE UnblockAll(_, _, _)
UnblockAll(cl, deps, data) ==
  IF deps = <<>> THEN cl
  ELSE UnblockAll(UnblockClient(cl, Head(deps), data), Tail(deps), data)

storage_callback(t) ==
  /\ task[t].type = "GET" /\ task[t].stage = "unblocked"
  /\ client[t].reply = NoReply
  /\ LET k == task[t].key
         update_cache == end_inflight(inflight_map, k, t)
         deps == storage_callback_dependents(task[t], update_cache)
     IN
     /\ inflight_map' = end_inflight_map(inflight_map, k, t)
     /\ task' = [task EXCEPT ![t].stage = "done",
                             ![t].update_cache = update_cache]
     /\ IF task[t].status = "ERR" THEN
          /\ client' = [UnblockAll(client, deps, NullData)
                          EXCEPT ![t].reply = ReplyErr]
          /\ UNCHANGED <<cache, cache_src>>
        ELSE
          /\ IF update_cache THEN
               /\ cache' = [cache EXCEPT ![k] = task[t].value]
               /\ cache_src' = [cache_src EXCEPT ![k] = <<"get", t>>]
             ELSE UNCHANGED <<cache, cache_src>>
          /\ client' = [UnblockAll(client, deps, task[t].value)
                          EXCEPT ![t].reply = task[t].value]
  /\ UNCHANGED <<rate_vars, alloc_vars, aux_vars, mock_vars, admit_write, begin_assert_ok, task_get_queue, task_set_queue,
                 upstream, next_client>>

(***************************************************************************)
(* get.cpp: inflight_callback, the reply callback of a dependent.          *)
(***************************************************************************)
\* a callback that replies with its private data without looking at it
inflight_callback_reply_unchecked(s) == s

\* what the callback replies: an error when the private data is nullptr
inflight_callback_reply(s) == IF s = NullData THEN ReplyErr ELSE s

inflight_callback(c) ==
  /\ client[c].role = "dep" /\ client[c].unblocks > 0
  /\ client[c].reply = NoReply
  /\ client' = [client EXCEPT ![c].reply =
       inflight_callback_reply(client[c].privdata)]
  /\ UNCHANGED <<rate_vars, alloc_vars, aux_vars, mock_vars, admit_write, cache, cache_src, inflight_map, begin_assert_ok,
                 task, task_get_queue, task_set_queue, upstream, next_client>>

(***************************************************************************)
(* set.cpp: reply_callback, the reply callback of a SET client.            *)
(***************************************************************************)
\* a clean-up that only deletes a string slot
reply_callback_DeleteKey_string(slot) ==
  IF IsString(slot) THEN KEY_EMPTY ELSE slot

\* RedisModule_DeleteKey on the key opened for writing: whatever the slot
\* holds, it is empty afterwards
reply_callback_DeleteKey(slot) == KEY_EMPTY

reply_callback(t) ==
  /\ task[t].type = "SET" /\ task[t].stage = "unblocked"
  /\ client[t].reply = NoReply
  /\ task' = [task EXCEPT ![t].stage = "done"]
  /\ IF task[t].status = "ERR" THEN
       /\ cache' = [cache EXCEPT ![task[t].key] = reply_callback_DeleteKey(@)]
       /\ cache_src' = [cache_src EXCEPT ![task[t].key] = <<"setfail", t>>]
       /\ client' = [client EXCEPT ![t].reply = ReplyErr]
     ELSE
       /\ client' = [client EXCEPT ![t].reply = ReplyOK]
       /\ UNCHANGED <<cache, cache_src>>
  /\ UNCHANGED <<rate_vars, alloc_vars, aux_vars, mock_vars, admit_write, inflight_map, begin_assert_ok, task_get_queue,
                 task_set_queue, upstream, next_client>>

(***************************************************************************)
(* rate.h: RateLimiter.  Time is counted in ticks; a time frame            *)
(* (TIME_FRAME_LEN_SEC = 0.37 s) is TIME_FRAME_LEN ticks long and a rate   *)
(* is an amount per tick.                                                  *)
(***************************************************************************)
TIME_FRAME_LEN == 3
MaxTime == 9
MaxRate == 2
MaxCost == 4
MaxProposals == 2

\* whether update_time_frame starts a new frame
update_time_frame_rollover(now, frame_begin) ==
  now - frame_begin >= TIME_FRAME_LEN

\* the elapsed time update_time_frame returns (std::fmod on a rollover)
update_time_frame_elapsed(now, frame_begin) ==
  IF update_time_frame_rollover(now, frame_begin)
    THEN (now - frame_begin) % TIME_FRAME_LEN
    ELSE now - frame_begin

\* a frame that carries its progress over the rollover
update_time_frame_progress_kept(now, frame_begin, progress) == progress

\* time_frame_progress after update_time_frame
update_time_frame_progress(now, frame_begin, progress) ==
  IF update_time_frame_rollover(now, frame_begin) THEN 0 ELSE progress

\* a rate that follows every proposal at once
update_time_frame_rate_eager(now, frame_begin, rate, proposed) == proposed

\* rate after update_time_frame: the proposed rate on a rollover
update_time_frame_rate(now, frame_begin, rate, proposed) ==
  IF update_time_frame_rollover(now, frame_begin) THEN proposed ELSE rate

NoRateHist == [pending |-> <<>>, applied |-> <<>>]

\* RateLimiter(rate)
RateInit ==
  /\ rl_now = 0
  /\ rl_rate \in 1..MaxRate
  /\ rl_progress = 0
  /\ rl_frame_begin = 0
  /\ rl_proposed = rl_rate
  /\ rl_wait = <<0, 1>>
  /\ rl_permit = FALSE
  /\ rl_total = 0
  /\ rl_nprop = 0
  /\ rl_hist = NoRateHist

\* the limiter is not part of the specification: it stays as constructed
RateIdle ==
  /\ rl_now = 0 /\ rl_rate = 1 /\ rl_progress = 0 /\ rl_frame_begin = 0
  /\ rl_proposed = 1 /\ rl_wait = <<0, 1>> /\ rl_permit = FALSE
  /\ rl_total = 0 /\ rl_nprop = 0 /\ rl_hist = NoRateHist

\* the clock advances
RateTick ==
  /\ rl_now < MaxTime
  /\ rl_now' = rl_now + 1
  /\ UNCHANGED <<rl_rate, rl_progress, rl_frame_begin, rl_proposed, rl_wait,
                 rl_permit, rl_total, rl_nprop, rl_hist>>
  /\ UNCHANGED <<pipe_vars, alloc_vars, aux_vars>>

\* check_wait_time(): update_time_frame(), then progress / rate - elapsed,
\* kept as the fraction <<progress - rate * elapsed, rate>>
check_wait_time ==
  LET roll == update_time_frame_rollover(rl_now, rl_frame_begin)
      elapsed == update_time_frame_elapsed(rl_now, rl_frame_begin)
      progress == update_time_frame_progress(rl_now, rl_frame_begin,
                                             rl_progress)
      rate == update_time_frame_rate(rl_now, rl_frame_begin, rl_rate,
                                     rl_proposed)
  IN  /\ rl_frame_begin' = IF roll THEN rl_now - elapsed ELSE rl_frame_begin
      /\ rl_progress' = progress
      /\ rl_rate' = rate
      /\ rl_wait' = <<progress - rate * elapsed, rate>>
      /\ rl_permit' = (progress - rate * elapsed <= 0)
      /\ rl_hist' = IF roll /\ rl_hist.pending # <<>>
                       THEN [pending |-> <<>>, applied |-> rl_hist.pending]
                       ELSE rl_hist
      /\ UNCHANGED <<rl_now, rl_proposed, rl_total, rl_nprop>>
      /\ UNCHANGED <<pipe_vars, alloc_vars, aux_vars>>

\* consume(consumption), by a caller that was told it may send
consume(consumption) ==
  /\ rl_permit
  /\ rl_progress' = rl_progress + consumption
  /\ rl_total' = rl_total + consumption
  /\ rl_permit' = FALSE
  /\ UNCHANGED <<rl_now, rl_rate, rl_frame_begin, rl_proposed, rl_wait,
                 rl_nprop, rl_hist>>
  /\ UNCHANGED <<pipe_vars, alloc_vars, aux_vars>>

\* propose_new_rate(new_rate)
propose_new_rate(new_rate) ==
  /\ rl_nprop < MaxProposals
  /\ rl_proposed' = new_rate
  /\ rl_nprop' = rl_nprop + 1
  /\ rl_hist' = [rl_hist EXCEPT !.pending = Append(@, new_rate)]
  /\ UNCHANGED <<rl_now, rl_rate, rl_progress, rl_frame_begin, rl_wait,
                 rl_permit, rl_total>>
  /\ UNCHANGED <<pipe_vars, alloc_vars, aux_vars>>

(***************************************************************************)
(* Exact fractions <<numerator, denominator>> stand for the doubles of the *)
(* allocator.  A fraction is kept in lowest terms with a positive          *)
(* denominator; <<1, 0>> is +infinity (a positive double divided by zero). *)
(***************************************************************************)
RECURSIVE GCD(_, _)
GCD(a, b) == IF b = 0 THEN a ELSE GCD(b, a % b)

Abs(x) == IF x < 0 THEN -x ELSE x

Q(n, d) == LET g == GCD(Abs(n), d) IN <<n \div g, d \div g>>
QInt(n) == <<n, 1>>
QZero == <<0, 1>>
QOne == <<1, 1>>
QInf == <<1, 0>>

\* the common factor of two denominators or of a numerator and a denominator
\* (1 when both are 0), divided out before multiplying to keep numbers small
QFactor(x, y) == IF x = 0 /\ y = 0 THEN 1 ELSE GCD(Abs(x), Abs(y))

QAdd(a, b) ==
  LET g == QFactor(a[2], b[2])
  IN  Q(a[1] * (b[2] \div g) + b[1] * (a[2] \div g), (a[2] \div g) * b[2])
QSub(a, b) ==
  LET g == QFactor(a[2], b[2])
  IN  Q(a[1] * (b[2] \div g) - b[1] * (a[2] \div g), (a[2] \div g) * b[2])
QMul(a, b) ==
  LET g == QFactor(a[1], b[2])
      h == QFactor(b[1], a[2])
  IN  Q((a[1] \div g) * (b[1] \div h), (a[2] \div h) * (b[2] \div g))
QDiv(a, b) ==
  IF b[1] > 0 THEN Q(a[1] * b[2], a[2] * b[1])
  ELSE IF b[1] < 0 THEN Q(-(a[1] * b[2]), -(a[2] * b[1]))
  ELSE IF a[1] > 0 THEN QInf ELSE IF a[1] < 0 THEN <<-1, 0>> ELSE <<0, 0>>
\* a < b and a <= b by cross-multiplication; two finite fractions of
\* different sign are compared by sign alone
QLt(a, b) ==
  IF a[2] > 0 /\ b[2] > 0 /\ a[1] <= 0 /\ b[1] > 0 THEN TRUE
  ELSE IF a[2] > 0 /\ b[2] > 0 /\ a[1] >= 0 /\ b[1] <= 0 THEN FALSE
  ELSE LET g == QFactor(a[2], b[2])
       IN  a[1] * (b[2] \div g) < b[1] * (a[2] \div g)
QLe(a, b) ==
  IF a[2] > 0 /\ b[2] > 0 /\ a[1] <= 0 /\ b[1] >= 0 THEN TRUE
  ELSE IF a[2] > 0 /\ b[2] > 0 /\ a[1] > 0 /\ b[1] <= 0 THEN FALSE
  ELSE LET g == QFactor(a[2], b[2])
       IN  a[1] * (b[2] \div g) <= b[1] * (a[2] \div g)
QMin(a, b) == IF QLt(b, a) THEN b ELSE a
QAbs(a) == <<Abs(a[1]), a[2]>>
\* 0/0, which the doubles would turn into NaN
QIsNaN(a) == a[2] = 0 /\ a[1] = 0

(***************************************************************************)
(* params.h, params.cpp                                                    *)
(***************************************************************************)
max_trade_round == 10000
min_improve_ratio_delta == <<1, 10000>>
max_miss_ratio == QOne
min_miss_ratio == QZero
db_rcu_epsilon == <<1, 10000>>
db_wcu_epsilon == <<1, 10000>>
net_bw_epsilon == <<1, 10000>>
relinq_abort_offer == QZero
\* std::numeric_limits<float>::max(): an offer nobody can afford.  The model
\* uses an amount far above every resource total it can hold.
compen_abort_offer == <<1000, 1>>
\* x <= numeric::epilson (machine epsilon): every positive fraction of the
\* model is far above 2^-52, so the test is x <= 0
LeEpilson(x) == x[1] <= 0
\* unit of cache trading and least cache size (both 4 MB by default, equal in
\* the tests too); cache sizes are counted in that unit
cache_delta == 1
min_cache_size == 1

\* uint64_t subtraction: a wrapped result is above every tick of every curve
WRAPPED == 1000000
USub(a, b) == IF a >= b THEN a - b ELSE WRAPPED

(***************************************************************************)
(* resrc.h: StatelessResrcVec                                              *)
(***************************************************************************)
SVec(r, w, n) == [db_rcu |-> r, db_wcu |-> w, net_bw |-> n]
SZero == SVec(QZero, QZero, QZero)
SAdd(a, b) == SVec(QAdd(a.db_rcu, b.db_rcu), QAdd(a.db_wcu, b.db_wcu),
                   QAdd(a.net_bw, b.net_bw))
SSub(a, b) == SVec(QSub(a.db_rcu, b.db_rcu), QSub(a.db_wcu, b.db_wcu),
                   QSub(a.net_bw, b.net_bw))
SScale(a, f) == SVec(QMul(a.db_rcu, f), QMul(a.db_wcu, f), QMul(a.net_bw, f))
\* double operator/(const StatelessResrcVec &): the min over the three ratios
SMinRatio(a, b) ==
  QMin(QMin(QDiv(a.db_rcu, b.db_rcu), QDiv(a.db_wcu, b.db_wcu)),
       QDiv(a.net_bw, b.net_bw))
is_almost_empty(a) ==
  /\ QLt(QAbs(a.db_rcu), db_rcu_epsilon)
  /\ QLt(QAbs(a.db_wcu), db_wcu_epsilon)
  /\ QLt(QAbs(a.net_bw), net_bw_epsilon)
is_almost_equal(a, b) == is_almost_empty(SSub(a, b))

(***************************************************************************)
(* mrc.h: MissRatioCurve                                                   *)
(***************************************************************************)
\* an interpolation that weighs each side by its own distance
interpolate_swapped(l_val, r_val, l_dist, r_dist) ==
  LET total_dist == l_dist + r_dist
  IN  QAdd(QMul(l_val, Q(l_dist, total_dist)),
           QMul(r_val, Q(r_dist, total_dist)))

interpolate(l_val, r_val, l_dist, r_dist) ==
  LET total_dist == l_dist + r_dist
      l_ratio == Q(r_dist, total_dist)
      r_ratio == Q(l_dist, total_dist)
  IN  QAdd(QMul(l_val, l_ratio), QMul(r_val, r_ratio))

\* std::lower_bound: the first index whose tick is not below cache_size
lower_bound(ticks, cache_size) ==
  CHOOSE i \in 1..Len(ticks) :
    /\ ticks[i] >= cache_size
    /\ \A j \in 1..(i - 1) : ticks[j] < cache_size

get_miss_ratio(mrc, cache_size) ==
  LET ticks == mrc.ticks
      miss_ratios == mrc.miss_ratios
      n == Len(ticks)
  IN  IF cache_size > ticks[n] THEN miss_ratios[n]
      ELSE IF cache_size < ticks[1]
        THEN interpolate(QOne, miss_ratios[1], cache_size,
                         ticks[1] - cache_size)
      ELSE LET tick_idx == lower_bound(ticks, cache_size) IN
        IF cache_size = ticks[tick_idx] THEN miss_ratios[tick_idx]
        ELSE interpolate(miss_ratios[tick_idx - 1], miss_ratios[tick_idx],
                         cache_size - ticks[tick_idx - 1],
                         ticks[tick_idx] - cache_size)

(***************************************************************************)
(* The same computation in floating point.  Every operation on doubles     *)
(* rounds its exact result to the nearest representable value, ties to     *)
(* even (IEEE 754).  The model keeps Significand bits where a double keeps *)
(* 53; all values are non-negative fractions with a power of two as        *)
(* denominator.                                                            *)
(***************************************************************************)
Significand == 11

RECURSIVE Pow2(_)
Pow2(k) == IF k = 0 THEN 1 ELSE 2 * Pow2(k - 1)

\* the number of low bits of n that do not fit the significand
RECURSIVE fl_drop(_)
fl_drop(n) == IF n < Pow2(Significand) THEN 0 ELSE 1 + fl_drop(n \div 2)

\* n (plus a fraction below one unit when sticky) rounded to the nearest
\* integer with Significand significant bits, ties to even
fl_round(n, sticky) ==
  LET s == fl_drop(n)
      q == n \div Pow2(s)
      r == n % Pow2(s)
      half == IF s = 0 THEN 0 ELSE Pow2(s - 1)
      up == /\ s > 0
            /\ \/ r > half
               \/ r = half /\ sticky
               \/ r = half /\ ~sticky /\ q % 2 = 1
  IN  (IF up THEN q + 1 ELSE q) * Pow2(s)

\* a * b and a + b on doubles
fl_mul(a, b) == Q(fl_round(a[1] * b[1], FALSE), a[2] * b[2])
fl_add(a, b) ==
  LET d == IF a[2] > b[2] THEN a[2] ELSE b[2]
  IN  Q(fl_round(a[1] * (d \div a[2]) + b[1] * (d \div b[2]), FALSE), d)

\* double(a) / double(b) for two integers, 0 <= a, 0 < b
fl_div(a, b) ==
  LET K == Pow2(2 * Significand)
  IN  Q(fl_round((a * K) \div b, (a * K) % b # 0), K)

\* the double nearest to a fraction (a literal such as 0.9)
fl(x) == fl_div(x[1], x[2])

\* interpolate on doubles
fl_interpolate(l_val, r_val, l_dist, r_dist) ==
  LET total_dist == l_dist + r_dist
      l_ratio == fl_div(r_dist, total_dist)
      r_ratio == fl_div(l_dist, total_dist)
  IN  fl_add(fl_mul(l_val, l_ratio), fl_mul(r_val, r_ratio))

\* get_miss_ratio_const on doubles; the miss ratios of the curve are the
\* doubles nearest to the fractions given
fl_get_miss_ratio(mrc, cache_size) ==
  LET ticks == mrc.ticks
      miss_ratios == [i \in 1..Len(ticks) |-> fl(mrc.miss_ratios[i])]
      n == Len(ticks)
  IN  IF cache_size > ticks[n] THEN miss_ratios[n]
      ELSE IF cache_size < ticks[1]
        THEN fl_interpolate(QOne, miss_ratios[1], cache_size,
                            ticks[1] - cache_size)
      ELSE LET tick_idx == lower_bound(ticks, cache_size) IN
        IF cache_size = ticks[tick_idx] THEN miss_ratios[tick_idx]
        ELSE fl_interpolate(miss_ratios[tick_idx - 1], miss_ratios[tick_idx],
                            cache_size - ticks[tick_idx - 1],
                            ticks[tick_idx] - cache_size)

(***************************************************************************)
(* ghost.cpp: the sampled ghost cache and its checkpoint dump.ghc.  The    *)
(* gcache library is not among the sources; SampledGhostKvCache is         *)
(* modelled from section 4.4 of the specification: a sampled LRU of        *)
(* (key_hash, kv_size) entries with hit and miss counters per size tier.   *)
(* A key is its 32-bit hash; sizes of tiers are in sampled entries.        *)
(***************************************************************************)
ghost_sample_shift == 5

round_tick(tick) ==
  (tick \div Pow2(ghost_sample_shift)) * Pow2(ghost_sample_shift)

\* mem_estimate::round_size, the loop over the larger size classes
RECURSIVE round_size_general(_, _)
round_size_general(s, power) ==
  LET divisor == Pow2(power) IN
  IF s <= divisor * 8 - 4
    THEN ((s + 3) \div divisor) * divisor + (divisor - 4)
    ELSE round_size_general(s, power + 1)

round_size(s) ==
  IF s <= 4 THEN 4
  ELSE IF s <= 60 THEN ((s + 3) \div 8) * 8 + 4
  ELSE IF s <= 124 THEN ((s + 3) \div 16) * 16 + 12
  ELSE IF s <= 252 THEN ((s + 3) \div 32) * 32 + 28
  ELSE IF s <= 508 THEN ((s + 3) \div 64) * 64 + 60
  ELSE IF s <= 1020 THEN ((s + 3) \div 128) * 128 + 124
  ELSE IF s <= 2044 THEN ((s + 3) \div 256) * 256 + 252
  ELSE IF s <= 4092 THEN ((s + 3) \div 512) * 512 + 508
  ELSE round_size_general(s, 3)

fixed_cost == 55
estimate(key_size, val_size) ==
  fixed_cost + round_size(key_size) + round_size(val_size)

\* the sampler admits one hash in 2^ghost_sample_shift
is_sampled(key_hash) == key_hash % Pow2(ghost_sample_shift) = 0

NoCacheStat == [hit_cnt |-> 0, miss_cnt |-> 0]

\* the size tiers min_tick, min_tick + tick, ..., max_tick
ghost_tiers(tick, min_tick, max_tick) ==
  { s \in 1..(max_tick \div Pow2(ghost_sample_shift)) :
      /\ s * Pow2(ghost_sample_shift) >= min_tick
      /\ IF tick = 0 THEN s * Pow2(ghost_sample_shift) = min_tick
         ELSE (s * Pow2(ghost_sample_shift) - min_tick) % tick = 0 }

\* the constructor: an empty LRU (least recent entry first) and zeroed
\* counters
SampledGhostKvCache(tick, min_tick, max_tick) ==
  [tick |-> tick, min_tick |-> min_tick, max_tick |-> max_tick,
   lru |-> <<>>,
   stat |-> [s \in ghost_tiers(tick, min_tick, max_tick) |-> NoCacheStat]]

\* the rank of a key counted from the most recent entry, 0 when absent
ghost_rank(lru, key_hash) ==
  IF \E i \in 1..Len(lru) : lru[i].key_hash = key_hash
    THEN Len(lru) + 1 - (CHOOSE i \in 1..Len(lru) : lru[i].key_hash = key_hash)
    ELSE 0

\* access(key, kv_size, mode): DEFAULT counts a hit in every tier that
\* holds the key and a miss in the others; both modes make the key the most
\* recent entry with the given size and evict beyond max_tick
access(c, key_hash, kv_size, mode) ==
  LET rank == ghost_rank(c.lru, key_hash)
      kept == SelectSeq(c.lru, LAMBDA e : e.key_hash # key_hash)
      grown == Append(kept, [key_hash |-> key_hash, kv_size |-> kv_size])
      cap == c.max_tick \div Pow2(ghost_sample_shift)
  IN  IF ~is_sampled(key_hash) THEN c
      ELSE [c EXCEPT
              !.lru = IF Len(grown) > cap THEN Tail(grown) ELSE grown,
              !.stat = IF mode = "DEFAULT"
                         THEN [s \in DOMAIN c.stat |->
                                 IF rank # 0 /\ rank <= s
                                   THEN [c.stat[s] EXCEPT !.hit_cnt = @ + 1]
                                   ELSE [c.stat[s] EXCEPT !.miss_cnt = @ + 1]]
                         ELSE c.stat]

\* update_size(key, kv_size): the stored size of an existing entry
update_size(c, key_hash, kv_size) ==
  [c EXCEPT !.lru = [i \in 1..Len(c.lru) |->
                       IF c.lru[i].key_hash = key_hash
                         THEN [c.lru[i] EXCEPT !.kv_size = kv_size]
                         ELSE c.lru[i]]]

\* for_each_lru visits the entries from the least recent one
for_each_lru(c) == c.lru

RECURSIVE kv_size_sum(_)
kv_size_sum(entries) ==
  IF entries = <<>> THEN 0
  ELSE Head(entries).kv_size + kv_size_sum(Tail(entries))

\* get_cache_stat_curve: per tier, the key count and the aggregate kv size
\* of the most recent entries that fit the tier, and the tier's counters
get_cache_stat_curve(c) ==
  [s \in DOMAIN c.stat |->
     LET n == IF s < Len(c.lru) THEN s ELSE Len(c.lru) IN
     [count |-> n,
      size |-> kv_size_sum(SubSeq(c.lru, Len(c.lru) - n + 1, Len(c.lru))),
      cache_stat |-> c.stat[s]]]

\* a uint32_t as the four bytes f.write stores and f.read restores
u32_write(n) ==
  <<n % 256, (n \div 256) % 256, (n \div 65536) % 256,
    (n \div 16777216) % 256>>
u32_read(b) == b[1] + 256 * b[2] + 65536 * b[3] + 16777216 * b[4]

\* "hare"
header_str == <<104, 97, 114, 101>>
\* gcache::gshash{}("hare") on this platform and on another one
gshash_hare == 40503
gshash_hare_elsewhere == 52711

NoFile == [exists |-> FALSE, bytes |-> <<>>]

\* a record written with its two fields in the other order
save_record_size_first(h) == u32_write(h.kv_size) \o u32_write(h.key_hash)

\* the record save writes for one handle: key_hash, then kv_size
save_record(h) == u32_write(h.key_hash) \o u32_write(h.kv_size)

RECURSIVE save_records(_)
save_records(entries) ==
  IF entries = <<>> THEN <<>>
  ELSE save_record(Head(entries)) \o save_records(Tail(entries))

\* save(): the bytes of dump.ghc
save(c) ==
  [exists |-> TRUE,
   bytes |-> header_str \o u32_write(gshash_hare)
               \o save_records(for_each_lru(c))]

\* the loop of load(): one NOOP access per whole record read
RECURSIVE load_records(_, _)
load_records(c, bytes) ==
  IF Len(bytes) < 8 THEN c
  ELSE load_records(access(c, u32_read(SubSeq(bytes, 1, 4)),
                           u32_read(SubSeq(bytes, 5, 8)), "NOOP"),
                    SubSeq(bytes, 9, Len(bytes)))

\* load(): the return code and the ghost cache it leaves
load(c, f) ==
  IF ~f.exists THEN [rc |-> -1, cache |-> c]
  ELSE IF Len(f.bytes) < 4 \/ SubSeq(f.bytes, 1, 4) # header_str
    THEN [rc |-> -2, cache |-> c]
  ELSE IF Len(f.bytes) < 8 \/ u32_read(SubSeq(f.bytes, 5, 8)) # gshash_hare
    THEN [rc |-> -2, cache |-> c]
  ELSE [rc |-> 0,
        cache |-> load_records(c, SubSeq(f.bytes, 9, Len(f.bytes)))]

\* the key hashes, key size and value sizes of the requests
GhostKeys == {0, 32, 5}
GhostKeySize == 16
GhostValSizes == {0, 5}
\* the arguments of CONFIG.SET ghost.range
GhostTickArgs == {40}
GhostMaxTickArgs == {32, 70}
\* and those of the runs that look at ghost.range alone
RangeTickArgs == {5, 40, 100}
RangeMinTickArgs == {40, 70}
RangeMaxTickArgs == {32, 70, 200}
MaxGhostAccess == 2

NoSnapshot == SampledGhostKvCache(32, 32, 32)

GhostHist0 ==
  [saved |-> NoSnapshot,     \* the ghost cache when dump.ghc was last saved
   file_saved |-> FALSE,     \* dump.ghc holds what that save wrote
   reloaded |-> FALSE,       \* the ghost cache is init()'s load of that file
   rc |-> 0,                 \* the return code of the last save or load
   accesses |-> 0,           \* DEFAULT accesses made
   aborted |-> FALSE,        \* init() threw, or the handler trapped
   fault |-> FALSE]          \* ghost.range trapped on a division by zero

GhostInit ==
  /\ ghost_config = [tick |-> 32, min_tick |-> 32, max_tick |-> 64]
  /\ ghost_cache = SampledGhostKvCache(32, 32, 64)
  /\ dump_ghc = NoFile
  /\ ghost_hist = GhostHist0

GhostIdle == GhostInit

\* ghost::access_key
access_key(key_hash, val_size, update_miss_ratio) ==
  /\ ~ghost_hist.aborted
  /\ update_miss_ratio => ghost_hist.accesses < MaxGhostAccess
  /\ ghost_cache' = access(ghost_cache, key_hash,
                           estimate(GhostKeySize, val_size),
                           IF update_miss_ratio THEN "DEFAULT" ELSE "NOOP")
  /\ ghost_hist' = [ghost_hist EXCEPT
                      !.reloaded = FALSE,
                      !.accesses = IF update_miss_ratio THEN @ + 1 ELSE @]
  /\ UNCHANGED <<ghost_config, dump_ghc>>
  /\ UNCHANGED <<pipe_vars, rate_vars, alloc_vars, mrc_vars, barrier_vars,
                 more_vars>>

\* ghost::update_kv_size
update_kv_size(key_hash, val_size) ==
  /\ ~ghost_hist.aborted
  /\ ghost_cache' = update_size(ghost_cache, key_hash,
                                estimate(GhostKeySize, val_size))
  /\ ghost_hist' = [ghost_hist EXCEPT !.reloaded = FALSE]
  /\ UNCHANGED <<ghost_config, dump_ghc>>
  /\ UNCHANGED <<pipe_vars, rate_vars, alloc_vars, mrc_vars, barrier_vars,
                 more_vars>>

\* HOPPER.GHOST.SAVE; opened: whether dump.ghc could be opened for writing
RedisModule_HopperGhostSave(opened) ==
  /\ ~ghost_hist.aborted
  /\ IF opened THEN
       /\ dump_ghc' = save(ghost_cache)
       /\ ghost_hist' = [ghost_hist EXCEPT !.saved = ghost_cache,
                                           !.file_saved = TRUE, !.rc = 0]
     ELSE
       /\ ghost_hist' = [ghost_hist EXCEPT !.rc = -1]
       /\ UNCHANGED dump_ghc
  /\ UNCHANGED <<ghost_config, ghost_cache>>
  /\ UNCHANGED <<pipe_vars, rate_vars, alloc_vars, mrc_vars, barrier_vars,
                 more_vars>>

\* HOPPER.GHOST.LOAD: load() into the ghost cache as it is
RedisModule_HopperGhostLoad ==
  /\ ~ghost_hist.aborted
  /\ LET r == load(ghost_cache, dump_ghc) IN
       /\ ghost_cache' = r.cache
       /\ ghost_hist' = [ghost_hist EXCEPT !.rc = r.rc, !.reloaded = FALSE]
  /\ UNCHANGED <<ghost_config, dump_ghc>>
  /\ UNCHANGED <<pipe_vars, rate_vars, alloc_vars, mrc_vars, barrier_vars,
                 more_vars>>

\* 2^n modulo t
RECURSIVE Pow2Mod(_, _)
Pow2Mod(n, t) == IF n = 0 THEN 1 % t ELSE (2 * Pow2Mod(n - 1, t)) % t

\* new_min_tick + (new_max_tick - new_min_tick) / new_tick * new_tick on
\* unsigned long long (64 bits), then static_cast<uint32_t>; lo and hi are
\* rounded ticks, t > 0. A difference below zero wraps to 2^64 - (lo - hi).
new_max_tick_aligned(t, lo, hi) ==
  IF hi >= lo THEN lo + ((hi - lo) \div t) * t
  ELSE LET rem == (Pow2Mod(64, t) - (lo - hi)) % t   \* (2^64 - (lo - hi)) % t
           sum == hi - rem                \* lo + 2^64 - (lo - hi) - rem
       IN  IF sum >= 0 THEN sum ELSE sum + 4 * Pow2(30)

\* what the unsigned division by a zero tick can do: trap (x86 div), or
\* yield 0 (aarch64 udiv)
DivByZero == {"trap", "zero"}

\* CONFIG.SET ghost.range <tick> <min_tick> <max_tick>, which ends in
\* ghost::init(): a new ghost cache of that range, then load(); init throws
\* on an incompatible file
ghost_range_set(new_tick, new_min_tick, new_max_tick, div0) ==
  /\ ~ghost_hist.aborted
  /\ LET t == round_tick(new_tick)
         lo == round_tick(new_min_tick)
         hi == IF t = 0 THEN lo
               ELSE new_max_tick_aligned(t, lo, round_tick(new_max_tick))
         r == load(SampledGhostKvCache(t, lo, hi), dump_ghc)
     IN  IF t = 0 /\ div0 = "trap"
           THEN /\ ghost_hist' = [ghost_hist EXCEPT !.aborted = TRUE,
                                                    !.fault = TRUE]
                /\ UNCHANGED <<ghost_config, ghost_cache>>
           ELSE /\ ghost_config' = [tick |-> t, min_tick |-> lo,
                                    max_tick |-> hi]
                /\ ghost_cache' = r.cache
                /\ ghost_hist' = [ghost_hist EXCEPT
                                    !.rc = r.rc,
                                    !.reloaded =
                                      (r.rc = 0 /\ ghost_hist.file_saved),
                                    !.aborted = (r.rc = -2)]
  /\ UNCHANGED dump_ghc

\* the command with three numbers for arguments
HopperConfigSet_ghost_range(new_tick, new_min_tick, new_max_tick, div0) ==
  /\ ghost_range_set(new_tick, new_min_tick, new_max_tick, div0)
  /\ UNCHANGED <<pipe_vars, rate_vars, alloc_vars, mrc_vars, barrier_vars,
                 more_vars>>

\* dump.ghc is replaced by a checkpoint that another platform produced
\* (the case init()'s warning describes)
dump_ghc_from_another_platform ==
  /\ ~ghost_hist.aborted
  /\ dump_ghc.exists
  /\ u32_read(SubSeq(dump_ghc.bytes, 5, 8)) = gshash_hare
  /\ dump_ghc' = [dump_ghc EXCEPT
                    !.bytes = header_str \o u32_write(gshash_hare_elsewhere)
                                \o SubSeq(@, 9, Len(@))]
  /\ ghost_hist' = [ghost_hist EXCEPT !.file_saved = FALSE]
  /\ UNCHANGED <<ghost_config, ghost_cache>>
  /\ UNCHANGED <<pipe_vars, rate_vars, alloc_vars, mrc_vars, barrier_vars,
                 more_vars>>

(***************************************************************************)
(* barrier.cpp: HOPPER.BARRIER.WAIT / SIGNAL / COUNT.  A client that is    *)
(* blocked sends no command until its wait_callback has replied.           *)
(***************************************************************************)
MaxBarrierClients == 2
MaxSignals == 2
BarrierClients == 1..MaxBarrierClients
\* argc of the commands sent: the command name alone, or one more word
BarrierArgc == {1, 2}

NoBarrierClient ==
  [state |-> "idle",       \* idle, blocked, or unblocked (callback pending)
   reply |-> "none",       \* the last reply the client received
   count |-> -1,           \* the integer of its last COUNT reply
   waits |-> 0,            \* WAITs the client issued
   unblocks |-> 0,         \* RedisModule_UnblockClient calls on its handles
   wait_epoch |-> 0,       \* SIGNALs executed before its last WAIT
   wake_epoch |-> 0]       \* SIGNALs executed up to and with its last wake

BarrierHist0 ==
  [signals |-> 0,          \* SIGNALs executed
   waited |-> {}]          \* clients that issued WAIT since the last SIGNAL

BarrierInit ==
  /\ waiting_clients = <<>>
  /\ barrier_client = [c \in BarrierClients |-> NoBarrierClient]
  /\ barrier_hist = BarrierHist0

BarrierIdle == BarrierInit

\* a SIGNAL that forgets to empty the list
waiting_clients_kept(w) == w

\* waiting_clients.clear()
waiting_clients_clear(w) == <<>>

RECURSIVE barrier_unblock_all(_, _, _)
\* the loop of SIGNAL: RedisModule_UnblockClient on every handle of the list
barrier_unblock_all(bc, w, epoch) ==
  IF w = <<>> THEN bc
  ELSE barrier_unblock_all(
         [bc EXCEPT ![Head(w)].state = "unblocked",
                    ![Head(w)].unblocks = @ + 1,
                    ![Head(w)].wake_epoch = epoch],
         Tail(w), epoch)

RedisModule_HopperBarrierWait(c, argc) ==
  /\ barrier_client[c].state = "idle"
  /\ IF argc # 1 THEN
       /\ barrier_client' = [barrier_client EXCEPT ![c].reply = "WrongArity"]
       /\ UNCHANGED <<waiting_clients, barrier_hist>>
     ELSE
       /\ barrier_client' =
            [barrier_client EXCEPT ![c].state = "blocked",
                                   ![c].reply = "none",
                                   ![c].waits = @ + 1,
                                   ![c].wait_epoch = barrier_hist.signals]
       /\ waiting_clients' = Append(waiting_clients, c)
       /\ barrier_hist' = [barrier_hist EXCEPT !.waited = @ \cup {c}]
  /\ UNCHANGED <<pipe_vars, rate_vars, alloc_vars, mrc_vars, ghost_vars,
                 more_vars>>

RedisModule_HopperBarrierSignal(c, argc) ==
  /\ barrier_client[c].state = "idle"
  /\ IF argc # 1 THEN
       /\ barrier_client' = [barrier_client EXCEPT ![c].reply = "WrongArity"]
       /\ UNCHANGED <<waiting_clients, barrier_hist>>
     ELSE
       /\ barrier_hist.signals < MaxSignals
       /\ barrier_client' =
            [barrier_unblock_all(barrier_client, waiting_clients,
                                 barrier_hist.signals + 1)
               EXCEPT ![c].reply = "OK"]
       /\ waiting_clients' = waiting_clients_clear(waiting_clients)
       /\ barrier_hist' = [barrier_hist EXCEPT !.signals = @ + 1,
                                               !.waited = {}]
  /\ UNCHANGED <<pipe_vars, rate_vars, alloc_vars, mrc_vars, ghost_vars,
                 more_vars>>

RedisModule_HopperBarrierCount(c, argc) ==
  /\ barrier_client[c].state = "idle"
  /\ barrier_client' =
       IF argc # 1
         THEN [barrier_client EXCEPT ![c].reply = "WrongArity"]
         ELSE [barrier_client EXCEPT ![c].reply = "Integer",
                                     ![c].count = Len(waiting_clients)]
  /\ UNCHANGED <<waiting_clients, barrier_hist>>
  /\ UNCHANGED <<pipe_vars, rate_vars, alloc_vars, mrc_vars, ghost_vars,
                 more_vars>>

\* the reply callback of a client that SIGNAL unblocked
wait_callback(c) ==
  /\ barrier_client[c].state = "unblocked"
  /\ barrier_client' = [barrier_client EXCEPT ![c].state = "idle",
                                              ![c].reply = "OK"]
  /\ UNCHANGED <<waiting_clients, barrier_hist>>
  /\ UNCHANGED <<pipe_vars, rate_vars, alloc_vars, mrc_vars, ghost_vars,
                 more_vars>>

(***************************************************************************)
(* storage.cpp: the storage worker and its two limiters.  A task is known  *)
(* by its number; the clock counts ticks as the limiter's does.            *)
(***************************************************************************)
MaxWorkerTasks == 2
MaxWorkerTime == 4
WorkerTasks == 1..MaxWorkerTasks
\* key.size() of every task, and the value sizes of the requests and of
\* what the table returns
WorkerKeySize == 16
WorkerValSizes == {500, 5000}
\* config::dynamo::mock_dynamo_latency_sec, in ticks
mock_dynamo_latency == 1

\* utils::resrc
kv_to_rcu(key_size, val_size) == (key_size + val_size) \div 4096 + 1
kv_to_wcu(key_size, val_size) == (key_size + val_size) \div 1024 + 1

\* RateLimiter(rate), constructed at tick 0; total is history: everything
\* consume() was ever given
RateLimiter(rate) ==
  [rate |-> rate, time_frame_progress |-> 0, time_frame_begin |-> 0,
   proposed_rate |-> rate, total |-> 0]

\* the limiter after update_time_frame()
RateLimiter_update_time_frame(l, now) ==
  [l EXCEPT
     !.time_frame_begin =
        IF update_time_frame_rollover(now, l.time_frame_begin)
          THEN now - update_time_frame_elapsed(now, l.time_frame_begin)
          ELSE @,
     !.time_frame_progress =
        update_time_frame_progress(now, l.time_frame_begin, @),
     !.rate = update_time_frame_rate(now, l.time_frame_begin, @,
                                     l.proposed_rate)]

\* what check_wait_time() returns, time_frame_progress / rate - elapsed, as
\* the fraction <<progress - rate * elapsed, rate>>
RateLimiter_check_wait_time(l, now) ==
  LET u == RateLimiter_update_time_frame(l, now)
      elapsed == update_time_frame_elapsed(now, l.time_frame_begin)
  IN  <<u.time_frame_progress - u.rate * elapsed, u.rate>>

RateLimiter_consume(l, consumption) ==
  [l EXCEPT !.time_frame_progress = @ + consumption,
            !.total = @ + consumption]

\* a wait time that always permits
wait_time_permits_always(wait_time) == TRUE

\* wait_time <= 0
wait_time_permits(wait_time) == wait_time[1] <= 0

NoWorkerTask ==
  [type |-> "none", stage |-> "none", status |-> "NONE", val_size |-> 0,
   ready_ts |-> 0,
   rcu_charged |-> 0,      \* history: what the task has cost the RCU limiter
   wcu_charged |-> 0,      \* and the WCU limiter
   rcu_at_submit |-> 0]    \* history: what it was charged in its iteration

NoIteration ==
  [rcu_permit |-> FALSE, wcu_permit |-> FALSE, get |-> 0, set |-> 0,
   mocked |-> 0]

WorkerInit ==
  /\ wk_now = 0
  /\ wk_mock \in {[mock |-> FALSE, image |-> FALSE],
                  [mock |-> TRUE, image |-> FALSE],
                  [mock |-> TRUE, image |-> TRUE]}
  /\ wk_limiter = [rcu |-> RateLimiter(1), wcu |-> RateLimiter(1)]
  /\ wk_queue = [get |-> <<>>, set |-> <<>>, mock |-> <<>>]
  /\ wk_task = [t \in WorkerTasks |-> NoWorkerTask]
  /\ wk_last = NoIteration

WorkerIdle ==
  /\ wk_now = 0
  /\ wk_mock = [mock |-> FALSE, image |-> FALSE]
  /\ wk_limiter = [rcu |-> RateLimiter(1), wcu |-> RateLimiter(1)]
  /\ wk_queue = [get |-> <<>>, set |-> <<>>, mock |-> <<>>]
  /\ wk_task = [t \in WorkerTasks |-> NoWorkerTask]
  /\ wk_last = NoIteration

\* the clock advances
WorkerTick ==
  /\ wk_now < MaxWorkerTime
  /\ wk_now' = wk_now + 1
  /\ UNCHANGED <<wk_mock, wk_limiter, wk_queue, wk_task, wk_last>>
  /\ UNCHANGED not_worker

\* storage::get_async
get_async(t) ==
  /\ wk_task[t].type = "none"
  /\ wk_task' = [wk_task EXCEPT ![t] = [@ EXCEPT !.type = "GET",
                                                 !.stage = "queued"]]
  /\ wk_queue' = [wk_queue EXCEPT !.get = Append(@, t)]
  /\ UNCHANGED <<wk_now, wk_mock, wk_limiter, wk_last>>
  /\ UNCHANGED not_worker

\* storage::set_async
set_async(t, val_size) ==
  /\ wk_task[t].type = "none"
  /\ wk_task' = [wk_task EXCEPT ![t] = [@ EXCEPT !.type = "SET",
                                                 !.stage = "queued",
                                                 !.val_size = val_size]]
  /\ wk_queue' = [wk_queue EXCEPT !.set = Append(@, t)]
  /\ UNCHANGED <<wk_now, wk_mock, wk_limiter, wk_last>>
  /\ UNCHANGED not_worker

\* TaskGet::rcu_cost, TaskSet::wcu_cost
rcu_cost(tk) == kv_to_rcu(WorkerKeySize, tk.val_size)
wcu_cost(tk) == kv_to_wcu(WorkerKeySize, tk.val_size)

\* a completed Get: the task and the RCU limiter after the callback;
\* rcu_cost() - 1 is unsigned
task_get_completes(s, t, ok, val_size) ==
  IF ok
    THEN LET done == [s.task[t] EXCEPT !.status = "OK", !.stage = "done",
                                       !.val_size = val_size]
             post == USub(rcu_cost(done), 1)
         IN  [s EXCEPT
                !.task[t] = [done EXCEPT !.rcu_charged = @ + post],
                !.limiter.rcu = RateLimiter_consume(@, post)]
    ELSE [s EXCEPT !.task[t] = [@ EXCEPT !.status = "ERR", !.stage = "done"]]

\* process_mock_dynamo(); ok, val_size: whether the key is in the image (or
\* make_mock_val accepts it) and the size of the value
process_mock_dynamo_limited(s, now, ok, val_size) ==
  IF s.queue.mock = <<>> THEN s
  ELSE LET t == Head(s.queue.mock) IN
       IF now < s.task[t].ready_ts THEN s
       ELSE LET popped == [s EXCEPT !.queue.mock = Tail(@), !.mocked = t] IN
            IF s.task[t].type = "GET"
              THEN task_get_completes(popped, t, ok, val_size)
              ELSE [popped EXCEPT !.task[t] = [@ EXCEPT !.status = "OK",
                                                       !.stage = "done"]]

\* process_task_get / process_task_set: to the mock queue, or upstream
process_task(s, t, now) ==
  IF wk_mock.mock
    THEN [s EXCEPT !.task[t] = [@ EXCEPT
                                  !.stage = "mock_queued",
                                  !.ready_ts = now + mock_dynamo_latency],
                   !.queue.mock = Append(@, t)]
    ELSE [s EXCEPT !.task[t] = [@ EXCEPT !.stage = "submitted"]]

\* a worker that submits Get tasks without the prepaid RCU
worker_submit_get_unpaid(s, now, permit) ==
  IF permit /\ s.queue.get # <<>>
    THEN LET t == Head(s.queue.get)
             p == process_task([s EXCEPT !.queue.get = Tail(@)], t, now)
         IN  [p EXCEPT !.get = t]
    ELSE s

\* if (rcu_wait_time <= 0): pop one Get task, submit it, prepay 1 RCU
worker_submit_get(s, now, permit) ==
  IF permit /\ s.queue.get # <<>>
    THEN LET t == Head(s.queue.get)
             p == process_task([s EXCEPT !.queue.get = Tail(@)], t, now)
         IN  [p EXCEPT !.limiter.rcu = RateLimiter_consume(@, 1),
                       !.task[t] = [@ EXCEPT !.rcu_charged = @ + 1,
                                             !.rcu_at_submit = 1],
                       !.get = t]
    ELSE s

\* if (wcu_wait_time <= 0): pop one Set task, submit it, charge wcu_cost
worker_submit_set(s, now, permit) ==
  IF permit /\ s.queue.set # <<>>
    THEN LET t == Head(s.queue.set)
             p == process_task([s EXCEPT !.queue.set = Tail(@)], t, now)
         IN  [p EXCEPT !.limiter.wcu =
                          RateLimiter_consume(@, wcu_cost(s.task[t])),
                       !.task[t] = [@ EXCEPT
                                      !.wcu_charged = @ + wcu_cost(s.task[t])],
                       !.set = t]
    ELSE s

\* one iteration of the loop of storage_thread_main
storage_thread_main_iteration(ok, val_size) ==
  LET s0 == [task |-> wk_task, queue |-> wk_queue, limiter |-> wk_limiter,
             mocked |-> 0, get |-> 0, set |-> 0]
      s1 == IF wk_mock.mock
              THEN process_mock_dynamo_limited(s0, wk_now, ok, val_size)
              ELSE s0
      rcu_permit == wait_time_permits(
                      RateLimiter_check_wait_time(s1.limiter.rcu, wk_now))
      wcu_permit == wait_time_permits(
                      RateLimiter_check_wait_time(s1.limiter.wcu, wk_now))
      s2 == [s1 EXCEPT
               !.limiter.rcu = RateLimiter_update_time_frame(@, wk_now),
               !.limiter.wcu = RateLimiter_update_time_frame(@, wk_now)]
      s3 == worker_submit_get(s2, wk_now, rcu_permit)
      s4 == worker_submit_set(s3, wk_now, wcu_permit)
  IN  /\ wk_task' = s4.task
      /\ wk_queue' = s4.queue
      /\ wk_limiter' = s4.limiter
      /\ wk_last' = [rcu_permit |-> rcu_permit, wcu_permit |-> wcu_permit,
                     get |-> s4.get, set |-> s4.set, mocked |-> s4.mocked]
      /\ UNCHANGED <<wk_now, wk_mock>>
      /\ UNCHANGED not_worker

\* the callbacks given to getAsync: the table answered, or failed
getAsync_callback(t, ok, val_size) ==
  /\ wk_task[t].type = "GET" /\ wk_task[t].stage = "submitted"
  /\ LET s == task_get_completes(
                [task |-> wk_task, queue |-> wk_queue,
                 limiter |-> wk_limiter], t, ok, val_size)
     IN  /\ wk_task' = s.task
         /\ wk_limiter' = s.limiter
  /\ UNCHANGED <<wk_now, wk_mock, wk_queue, wk_last>>
  /\ UNCHANGED not_worker

\* the callbacks given to putAsync: neither touches the WCU limiter
putAsync_callback(t, ok) ==
  /\ wk_task[t].type = "SET" /\ wk_task[t].stage = "submitted"
  /\ wk_task' = [wk_task EXCEPT ![t] = [@ EXCEPT
                   !.status = IF ok THEN "OK" ELSE "ERR", !.stage = "done"]]
  /\ UNCHANGED <<wk_now, wk_mock, wk_limiter, wk_queue, wk_last>>
  /\ UNCHANGED not_worker

(***************************************************************************)
(* rate.h: update_time_frame as it computes.  The clock counts ticks of    *)
(* 1 / TicksPerSec seconds (the clock's period); elapsed is the tick count *)
(* converted to seconds in a double, std::fmod is exact, and the remainder *)
(* is converted back to ticks by a multiplication and a truncation.        *)
(***************************************************************************)
TicksPerSec == 100
MaxFrameTime == 80
MaxFrameProgress == 1
\* TIME_FRAME_LEN_SEC = 0.37, the literal and the double
TIME_FRAME_LEN_SEC == Q(37, 100)
TIME_FRAME_LEN_DOUBLE == fl(TIME_FRAME_LEN_SEC)

\* duration_cast<duration<double>>(ts_now - time_frame_begin).count()
elapsed_double(now, frame_begin) == fl_div(now - frame_begin, TicksPerSec)

\* std::fmod(x, y) for 0 <= x, 0 < y: exact
fmod(x, y) ==
  LET q == QDiv(x, y) IN QSub(x, QMul(QInt(q[1] \div q[2]), y))

\* duration_cast<high_resolution_clock::duration>(duration<double>(sec))
duration_ticks(sec) ==
  LET t == fl_mul(sec, QInt(TicksPerSec)) IN t[1] \div t[2]

\* the limiter after update_time_frame() at the clock value now
update_time_frame(l, now) ==
  LET elapsed == elapsed_double(now, l.time_frame_begin) IN
  IF ~QLt(elapsed, TIME_FRAME_LEN_DOUBLE)
    THEN [l EXCEPT
            !.time_frame_begin =
               now - duration_ticks(fmod(elapsed, TIME_FRAME_LEN_DOUBLE)),
            !.time_frame_progress = 0,
            !.rate = l.proposed_rate]
    ELSE l

NoFrameCall == [called |-> FALSE, now |-> 0, before |-> RateLimiter(1)]

FrameInit ==
  /\ fr_now = 0
  /\ fr_limiter = RateLimiter(1)
  /\ fr_last = NoFrameCall

FrameIdle == FrameInit

\* the clock advances by d ticks
FrameTick(d) ==
  /\ fr_now + d <= MaxFrameTime
  /\ fr_now' = fr_now + d
  /\ UNCHANGED <<fr_limiter, fr_last>>
  /\ UNCHANGED not_frame

\* check_wait_time(), of which update_time_frame() is the part that writes
check_wait_time_double ==
  /\ fr_limiter' = update_time_frame(fr_limiter, fr_now)
  /\ fr_last' = [called |-> TRUE, now |-> fr_now, before |-> fr_limiter]
  /\ UNCHANGED fr_now
  /\ UNCHANGED not_frame

\* consume(consumption)
consume_double(consumption) ==
  /\ fr_limiter.total + consumption <= MaxFrameProgress
  /\ fr_limiter' = RateLimiter_consume(fr_limiter, consumption)
  /\ UNCHANGED <<fr_now, fr_last>>
  /\ UNCHANGED not_frame

\* propose_new_rate(new_rate)
propose_new_rate_double(new_rate) ==
  /\ fr_limiter' = [fr_limiter EXCEPT !.proposed_rate = new_rate]
  /\ UNCHANGED <<fr_now, fr_last>>
  /\ UNCHANGED not_frame

(***************************************************************************)
(* The components added last, as constructed.                              *)
(***************************************************************************)
NoCollectCall == [done |-> FALSE]

CollectCallIdle == collect_call = NoCollectCall

\* TaskQueue(): an unlocked lock and an empty queue; no thread is inside
TaskQueue ==
  [queue_lock |-> "unlocked", queue |-> <<>>,
   cmd_pc |-> "idle", cmd_t |-> 0,        \* the command thread in push(t)
   worker_pc |-> "idle", worker_t |-> 0,  \* the worker thread in pop()
   next |-> 0,                            \* tasks created so far
   pushed |-> <<>>,                       \* history: tasks in push order
   submitted |-> <<>>]                    \* history: as the worker got them

TaskQueueIdle == tq = TaskQueue

\* storage::init(): db is there and the worker thread runs
StorageWorker ==
  [storage_thread_running |-> TRUE, storage_thread |-> "running",
   db |-> TRUE]

StorageWorkerIdle == storage_worker = StorageWorker

\* std::to_string(n).length() for n >= 0
RECURSIVE to_string_length(_)
to_string_length(n) == IF n < 10 THEN 1 ELSE 1 + to_string_length(n \div 10)

\* storage::update_mock_format: thrown, or the format it accepts.  The
\* differences are taken in uint32_t and read as int32_t, which for the
\* sizes here is the difference of the integers.
update_mock_format(key_size, val_size) ==
  LET size_len == IF to_string_length(key_size) >= to_string_length(val_size)
                    THEN to_string_length(key_size)
                    ELSE to_string_length(val_size)
      least_len_left == (IF key_size <= val_size THEN key_size ELSE val_size)
                          - 3 - size_len
      offset_len == IF least_len_left <= 10 THEN least_len_left ELSE 10
      k_pad_len == key_size - 3 - size_len - offset_len
      v_pad_len == val_size - 3 - size_len - offset_len
  IN  IF least_len_left <= 0 \/ k_pad_len < 0 \/ v_pad_len < 0
        THEN [thrown |-> TRUE]
        ELSE [thrown |-> FALSE,
              mock_format |-> [key_size |-> key_size, val_size |-> val_size,
                               size_len |-> size_len,
                               offset_len |-> offset_len,
                               k_pad_len |-> k_pad_len,
                               v_pad_len |-> v_pad_len]]

\* a string is the sequence of its characters; "hare_table"
hare_table == <<"h", "a", "r", "e", "_", "t", "a", "b", "l", "e">>

NoConfigCall == [called |-> FALSE]

\* the definitions of config.cpp and storage.cpp, and storage::init()
ConfigInit ==
  config = [table |-> hare_table,
            mock_image |-> [nullptr |-> TRUE, files |-> {}],
            mock_format |-> update_mock_format(16, 500).mock_format,
            calls |-> 0,              \* history: CONFIG.SETs executed
            last |-> NoConfigCall]    \* history: the last of them

ConfigIdle == ConfigInit

PostIdle ==
  CollectCallIdle /\ TaskQueueIdle /\ StorageWorkerIdle /\ ConfigIdle

(***************************************************************************)
(* The command thread with its accounting: the handlers of get.cpp and     *)
(* set.cpp as a whole, with the ghost cache (ghost.cpp), the statistics    *)
(* (stats.cpp) and the egress limiter (network.cpp).  A key has            *)
(* GhostKeySize bytes and a sampled hash; the value v has v bytes.  The    *)
(* running average avg_kv_size of the statistics is left out.              *)
(***************************************************************************)
MaxCmdTime == 1
\* net_rate_limiter's rate, bytes per tick
NetRate == 20

key_hash(k) == (k - 1) * Pow2(ghost_sample_shift)
value_size(v) == IF v > 0 THEN v ELSE 0

\* config::policy::alloc_total_net_bw
config_alloc_total_net_bw == TRUE

\* utils::resrc
kv_to_net_get_client(key_size, val_size) == key_size + val_size
kv_to_net_set_client(key_size, val_size) == key_size + val_size
kv_to_net_get_storage(key_size, val_size) == key_size + val_size
kv_to_net_set_storage(key_size, val_size) == key_size + val_size

NoStats ==
  [req_cnt |-> 0, hit_cnt |-> 0, miss_cnt |-> 0,
   db_rcu_consump_if_miss |-> 0, net_bw_consump_if_miss |-> 0,
   net_bw_consump_if_hit |-> 0, db_rcu_consump |-> 0, db_wcu_consump |-> 0,
   net_bw_consump |-> 0]

\* stats::record_get_done
record_get_done(s, key_size, val_size, is_miss) ==
  LET db_rcu == kv_to_rcu(key_size, val_size)
      client_bw == kv_to_net_get_client(key_size, val_size)
      storage_bw == IF config_alloc_total_net_bw
                      THEN kv_to_net_get_storage(key_size, val_size) ELSE 0
  IN  [s EXCEPT
         !.req_cnt = @ + 1,
         !.miss_cnt = IF is_miss THEN @ + 1 ELSE @,
         !.hit_cnt = IF is_miss THEN @ ELSE @ + 1,
         !.db_rcu_consump_if_miss = @ + db_rcu,
         !.db_rcu_consump = IF is_miss THEN @ + db_rcu ELSE @,
         !.net_bw_consump_if_miss = @ + client_bw + storage_bw,
         !.net_bw_consump_if_hit = @ + client_bw,
         !.net_bw_consump = @ + client_bw + IF is_miss THEN storage_bw ELSE 0]

\* stats::record_set_done
record_set_done(s, key_size, val_size) ==
  LET client_bw == kv_to_net_set_client(key_size, val_size)
      storage_bw == IF config_alloc_total_net_bw
                      THEN kv_to_net_set_storage(key_size, val_size) ELSE 0
  IN  [s EXCEPT
         !.req_cnt = @ + 1,
         !.db_wcu_consump = @ + kv_to_wcu(key_size, val_size),
         !.net_bw_consump_if_miss = @ + client_bw + storage_bw,
         !.net_bw_consump_if_hit = @ + client_bw + storage_bw,
         !.net_bw_consump = @ + client_bw + storage_bw]

\* network::wait_until_can_send, then network::consume: the limiter and the
\* clock afterwards (the thread sleeps for a positive wait time, here rounded
\* up to whole ticks)
network_send(l, now, consumption) ==
  LET w == RateLimiter_check_wait_time(l, now)
      slept == IF w[1] > 0 THEN (w[1] + w[2] - 1) \div w[2] ELSE 0
  IN  [limiter |-> RateLimiter_consume(RateLimiter_update_time_frame(l, now),
                                       consumption),
       now |-> now + slept]

CmdInit ==
  /\ resrc_stats = NoStats
  /\ net_rate_limiter = RateLimiter(NetRate)
  /\ cmd_now = 0

CmdIdle == CmdInit

LateIdle == CmdIdle /\ PostIdle

\* everything the handlers of the command thread never touch
cmd_rest == <<rate_vars, alloc_vars, mrc_vars, barrier_vars, resrc_vars,
              worker_vars, frame_vars, post_vars, ghost_config, dump_ghc,
              ghost_hist, mock_vars, admit_write, upstream>>

\* the clock advances
CmdTick ==
  /\ cmd_now < MaxCmdTime
  /\ cmd_now' = cmd_now + 1
  /\ UNCHANGED <<resrc_stats, net_rate_limiter, pipe_vars, rate_vars,
                 alloc_vars, mrc_vars, ghost_vars, barrier_vars, resrc_vars,
                 worker_vars, frame_vars, post_vars>>

\* get.cpp: RedisModule_HopperGet
RedisModule_HopperGet(k) ==
  /\ next_client < MaxClients
  /\ LET c == next_client + 1
         sent == network_send(net_rate_limiter, cmd_now,
                   kv_to_net_get_client(GhostKeySize, value_size(cache[k])))
     IN
     /\ next_client' = c
     /\ IF cache[k] = KEY_EMPTY THEN
          /\ ghost_cache' = access(ghost_cache, key_hash(k),
                                   estimate(GhostKeySize, 0), "DEFAULT")
          /\ IF HopperGet_has_inflight(inflight_map, k) THEN
               /\ task' = add_dependent(task, inflight_map, k, c)
               /\ client' = [client EXCEPT ![c] =
                    [NoClientRec EXCEPT !.cmd = "get", !.key = k,
                       !.role = "dep",
                       !.waits = inflight_task(inflight_map, k)]]
               /\ UNCHANGED <<inflight_map, begin_assert_ok, task_get_queue>>
             ELSE
               /\ task' = [task EXCEPT ![c] =
                    [NoTaskRec EXCEPT !.type = "GET", !.key = k,
                       !.stage = "queued", !.born = c]]
               /\ begin_assert_ok' =
                    (begin_assert_ok /\ begin_inflight_assert(inflight_map, k))
               /\ inflight_map' = begin_inflight(inflight_map, k, c)
               /\ task_get_queue' = Append(task_get_queue, c)
               /\ client' = [client EXCEPT ![c] =
                    [NoClientRec EXCEPT !.cmd = "get", !.key = k,
                       !.role = "owner", !.waits = c]]
          /\ UNCHANGED cmd_vars
        ELSE IF cache[k] = NON_STRING THEN
          /\ client' = [client EXCEPT ![c] =
               [NoClientRec EXCEPT !.cmd = "get", !.key = k,
                  !.role = "wrongtype", !.reply = ReplyErr]]
          /\ UNCHANGED <<task, inflight_map, begin_assert_ok, task_get_queue,
                         ghost_cache, cmd_vars>>
        ELSE
          /\ client' = [client EXCEPT ![c] =
               [NoClientRec EXCEPT !.cmd = "get", !.key = k, !.role = "hit",
                  !.reply = cache[k]]]
          /\ ghost_cache' = access(ghost_cache, key_hash(k),
                              estimate(GhostKeySize, value_size(cache[k])),
                              "DEFAULT")
          /\ resrc_stats' = record_get_done(resrc_stats, GhostKeySize,
                                            value_size(cache[k]), FALSE)
          /\ net_rate_limiter' = sent.limiter
          /\ cmd_now' = sent.now
          /\ UNCHANGED <<task, inflight_map, begin_assert_ok, task_get_queue>>
  /\ UNCHANGED <<cmd_rest, cache, cache_src, task_set_queue>>

\* set.cpp: RedisModule_HopperSet
RedisModule_HopperSet(k, v) ==
  /\ next_client < MaxClients
  /\ LET c == next_client + 1
         sent == network_send(net_rate_limiter, cmd_now,
                   kv_to_net_set_client(GhostKeySize, value_size(v)) +
                   IF config_alloc_total_net_bw
                     THEN kv_to_net_set_storage(GhostKeySize, value_size(v))
                     ELSE 0)
     IN
     /\ next_client' = c
     /\ IF cache[k] = NON_STRING THEN
          /\ client' = [client EXCEPT ![c] =
               [NoClientRec EXCEPT !.cmd = "set", !.key = k,
                  !.role = "wrongtype", !.reply = ReplyErr]]
          /\ UNCHANGED <<cache, cache_src, inflight_map, task, task_set_queue,
                         ghost_cache, cmd_vars>>
        ELSE
          /\ IF HopperSet_updates_cache(cache[k], admit_write) THEN
               /\ cache' = [cache EXCEPT ![k] = v]
               /\ cache_src' = [cache_src EXCEPT ![k] = <<"set", c>>]
               /\ inflight_map' = invalidate_inflight(inflight_map, k)
             ELSE
               UNCHANGED <<cache, cache_src, inflight_map>>
          /\ task' = [MarkSetSeen(task, k) EXCEPT ![c] =
               [NoTaskRec EXCEPT !.type = "SET", !.key = k, !.value = v,
                  !.stage = "queued", !.born = c]]
          /\ ghost_cache' = access(ghost_cache, key_hash(k),
                              estimate(GhostKeySize, value_size(v)), "NOOP")
          /\ resrc_stats' = record_set_done(resrc_stats, GhostKeySize,
                                            value_size(v))
          /\ net_rate_limiter' = sent.limiter
          /\ cmd_now' = sent.now
          /\ task_set_queue' = Append(task_set_queue, c)
          /\ client' = [client EXCEPT ![c] =
               [NoClientRec EXCEPT !.cmd = "set", !.key = k, !.role = "owner",
                  !.waits = c]]
  /\ UNCHANGED <<cmd_rest, begin_assert_ok, task_get_queue>>

\* a SETC that erases the registry entry as SET does
HopperSetC_inflight_invalidated(map, key) == invalidate_inflight(map, key)

\* the registry after SETC: the handler never calls into inflight.cpp
HopperSetC_inflight(map, key) == map

\* set.cpp: RedisModule_HopperSetC
RedisModule_HopperSetC(argc, k, v) ==
  /\ next_client < MaxClients
  /\ LET c == next_client + 1 IN
     /\ next_client' = c
     /\ IF argc # 3 THEN
          /\ client' = [client EXCEPT ![c] =
               [NoClientRec EXCEPT !.cmd = "setc", !.key = k,
                  !.role = "arity", !.reply = ReplyErr]]
          /\ UNCHANGED <<cache, cache_src, inflight_map, ghost_cache>>
        ELSE IF cache[k] = NON_STRING THEN
          /\ client' = [client EXCEPT ![c] =
               [NoClientRec EXCEPT !.cmd = "setc", !.key = k,
                  !.role = "wrongtype", !.reply = ReplyErr]]
          /\ UNCHANGED <<cache, cache_src, inflight_map, ghost_cache>>
        ELSE
          /\ cache' = [cache EXCEPT ![k] = v]
          /\ cache_src' = [cache_src EXCEPT ![k] = <<"setc", c>>]
          /\ client' = [client EXCEPT ![c] =
               [NoClientRec EXCEPT !.cmd = "setc", !.key = k, !.role = "hit",
                  !.reply = ReplyOK]]
          /\ inflight_map' = HopperSetC_inflight(inflight_map, k)
          /\ ghost_cache' = access(ghost_cache, key_hash(k),
                              estimate(GhostKeySize, value_size(v)), "NOOP")
  /\ UNCHANGED <<cmd_rest, cmd_vars, begin_assert_ok, task, task_get_queue,
                 task_set_queue>>

\* get.cpp: storage_callback
get_storage_callback(t) ==
  /\ task[t].type = "GET" /\ task[t].stage = "unblocked"
  /\ client[t].reply = NoReply
  /\ LET k == task[t].key
         update_cache == end_inflight(inflight_map, k, t)
         deps == storage_callback_dependents(task[t], update_cache)
         size == value_size(task[t].value)
         sent == network_send(net_rate_limiter, cmd_now,
                   kv_to_net_get_client(GhostKeySize, size) +
                   IF config_alloc_total_net_bw
                     THEN kv_to_net_get_storage(GhostKeySize, size) ELSE 0)
     IN
     /\ inflight_map' = end_inflight_map(inflight_map, k, t)
     /\ task' = [task EXCEPT ![t].stage = "done",
                             ![t].update_cache = update_cache]
     /\ IF task[t].status = "ERR" THEN
          /\ client' = [UnblockAll(client, deps, NullData)
                          EXCEPT ![t].reply = ReplyErr]
          /\ UNCHANGED <<cache, cache_src, ghost_cache, cmd_vars>>
        ELSE
          /\ IF update_cache THEN
               /\ cache' = [cache EXCEPT ![k] = task[t].value]
               /\ cache_src' = [cache_src EXCEPT ![k] = <<"get", t>>]
               /\ ghost_cache' = update_size(ghost_cache, key_hash(k),
                                             estimate(GhostKeySize, size))
             ELSE UNCHANGED <<cache, cache_src, ghost_cache>>
          /\ client' = [UnblockAll(client, deps, task[t].value)
                          EXCEPT ![t].reply = task[t].value]
          /\ resrc_stats' = record_get_done(resrc_stats, GhostKeySize, size,
                                            TRUE)
          /\ net_rate_limiter' = sent.limiter
          /\ cmd_now' = sent.now
  /\ UNCHANGED <<cmd_rest, begin_assert_ok, task_get_queue, task_set_queue,
                 next_client>>

\* get.cpp: inflight_callback
get_inflight_callback(c) ==
  /\ client[c].role = "dep" /\ client[c].unblocks > 0
  /\ client[c].reply = NoReply
  /\ client' = [client EXCEPT ![c].reply =
       inflight_callback_reply(client[c].privdata)]
  /\ IF client[c].privdata = NullData THEN UNCHANGED cmd_vars
     ELSE LET size == value_size(client[c].privdata)
              sent == network_send(net_rate_limiter, cmd_now,
                        kv_to_net_get_client(GhostKeySize, size))
          IN  /\ resrc_stats' = record_get_done(resrc_stats, GhostKeySize,
                                                size, FALSE)
              /\ net_rate_limiter' = sent.limiter
              /\ cmd_now' = sent.now
  /\ UNCHANGED <<cmd_rest, cache, cache_src, inflight_map, begin_assert_ok,
                 task, task_get_queue, task_set_queue, next_client,
                 ghost_cache>>

(***************************************************************************)
(* resrc.cpp: HOPPER.RESRC.GET / HOPPER.RESRC.SET.  An argument is the     *)
(* outcome of RedisModule_StringToLongLong / StringToDouble: whether it    *)
(* parsed, and the number.  The numbers drawn are below 2^31, where the    *)
(* cast of cache_size to uint32_t keeps the value.                         *)
(***************************************************************************)
ResrcArgs ==
  {[ok |-> FALSE, val |-> 0], [ok |-> TRUE, val |-> -1],
   [ok |-> TRUE, val |-> 0], [ok |-> TRUE, val |-> 3]}
\* the arguments drawn for db_wcu and net_bw
ResrcArgsFew == ResrcArgs \ {[ok |-> TRUE, val |-> 0]}

\* the limiters as constructed: rcu/wcu_rate_limiter(1'000'000),
\* net_rate_limiter(1'000'000'000); maxmemory 0 is Redis's default
ResrcInit ==
  /\ allocated_resrc = [cache_size |-> 0, db_rcu |-> 0, db_wcu |-> 0,
                        net_bw |-> 0]
  /\ maxmemory = 0
  /\ proposed_rate = [db_rcu |-> 1000000, db_wcu |-> 1000000,
                      net_bw |-> 1000000000]
  /\ resrc_reply = <<"none">>

ResrcIdle == ResrcInit

\* a guard that lets zero through only
resrc_set_applies_positive(val) == val > 0

\* "negative means skip"
resrc_set_applies(val) == val >= 0

RedisModule_HopperResrcGet(argc) ==
  /\ resrc_reply' =
       IF argc # 1 THEN <<"WrongArity">>
       ELSE <<"Array", allocated_resrc.cache_size, allocated_resrc.db_rcu,
              allocated_resrc.db_wcu, allocated_resrc.net_bw>>
  /\ UNCHANGED <<allocated_resrc, maxmemory, proposed_rate>>
  /\ UNCHANGED not_resrc

\* config_set_ok: whether CONFIG SET MAXMEMORY replied with a string
RedisModule_HopperResrcSet(argc, new_cache_size, new_db_rcu, new_db_wcu, new_net_bw, config_set_ok) ==
  /\ IF argc # 5 THEN
       /\ resrc_reply' = <<"WrongArity">>
       /\ UNCHANGED <<allocated_resrc, maxmemory, proposed_rate>>
     ELSE IF ~new_cache_size.ok THEN
       /\ resrc_reply' = <<"ERR Fail to parse <cache_size>">>
       /\ UNCHANGED <<allocated_resrc, maxmemory, proposed_rate>>
     ELSE IF ~new_db_rcu.ok THEN
       /\ resrc_reply' = <<"ERR Fail to parse <db_rcu>">>
       /\ UNCHANGED <<allocated_resrc, maxmemory, proposed_rate>>
     ELSE IF ~new_db_wcu.ok THEN
       /\ resrc_reply' = <<"ERR Fail to parse <db_wcu>">>
       /\ UNCHANGED <<allocated_resrc, maxmemory, proposed_rate>>
     ELSE IF ~new_net_bw.ok THEN
       /\ resrc_reply' = <<"ERR Fail to parse <net_bw>">>
       /\ UNCHANGED <<allocated_resrc, maxmemory, proposed_rate>>
     ELSE IF resrc_set_applies(new_cache_size.val) /\ ~config_set_ok THEN
       /\ resrc_reply' = <<"ERR Fail to set cache size">>
       /\ UNCHANGED <<allocated_resrc, maxmemory, proposed_rate>>
     ELSE
       /\ maxmemory' = IF resrc_set_applies(new_cache_size.val)
                         THEN new_cache_size.val ELSE maxmemory
       /\ proposed_rate' =
            [db_rcu |-> IF resrc_set_applies(new_db_rcu.val)
                          THEN new_db_rcu.val ELSE proposed_rate.db_rcu,
             db_wcu |-> IF resrc_set_applies(new_db_wcu.val)
                          THEN new_db_wcu.val ELSE proposed_rate.db_wcu,
             net_bw |-> IF resrc_set_applies(new_net_bw.val)
                          THEN new_net_bw.val ELSE proposed_rate.net_bw]
       /\ allocated_resrc' =
            [cache_size |-> IF resrc_set_applies(new_cache_size.val)
                              THEN new_cache_size.val
                              ELSE allocated_resrc.cache_size,
             db_rcu |-> IF resrc_set_applies(new_db_rcu.val)
                          THEN new_db_rcu.val ELSE allocated_resrc.db_rcu,
             db_wcu |-> IF resrc_set_applies(new_db_wcu.val)
                          THEN new_db_wcu.val ELSE allocated_resrc.db_wcu,
             net_bw |-> IF resrc_set_applies(new_net_bw.val)
                          THEN new_net_bw.val ELSE allocated_resrc.net_bw]
       /\ resrc_reply' = <<"OK">>
  /\ UNCHANGED not_resrc

(***************************************************************************)
(* A curve and the queries made of it.  The curves pass check_sanity:      *)
(* miss ratios in [0, 1], not increasing; their ticks increase strictly.   *)
(***************************************************************************)
MaxCacheSize == 8
\* the sizes test_basic asks for
TestSizes == {0, 5, 7, 10, 20, 25, 30, 40, 50, 60, 80}
QuerySizes == (0..MaxCacheSize) \cup TestSizes
\* the curve of test_basic
test_basic_mrc ==
  [ticks |-> <<10, 20, 40, 80>>,
   miss_ratios |-> <<Q(9, 10), Q(8, 10), Q(7, 10), Q(6, 10)>>]
MrcTicks == {<<1, 4, 6>>, <<2, 3, 7>>}
MrcMissRatios == {QOne, Q(7, 8), Q(1, 2), QZero}
MrcCurves ==
  {test_basic_mrc} \cup
  { m \in [ticks : MrcTicks,
            miss_ratios : [1..3 -> MrcMissRatios]] :
      \A i \in 1..2 : QLe(m.miss_ratios[i + 1], m.miss_ratios[i]) }

NoQuery == [size |-> -1, value |-> QZero, double |-> QZero]

MrcInit ==
  /\ mrc_curve \in MrcCurves
  /\ mrc_last = NoQuery
  /\ mrc_prev = NoQuery
  /\ mrc_sane = "none"

\* no curve is part of the specification
MrcIdle ==
  /\ mrc_curve = test_basic_mrc
  /\ mrc_last = NoQuery
  /\ mrc_prev = NoQuery
  /\ mrc_sane = "none"

\* nothing added after the barrier is part of the specification
MoreIdle == ResrcIdle /\ WorkerIdle /\ FrameIdle /\ LateIdle

AuxIdle == MrcIdle /\ GhostIdle /\ BarrierIdle /\ MoreIdle

\* one call mrc.get_miss_ratio(cache_size); value is the result in exact
\* arithmetic, double the result in floating point
get_miss_ratio_call(cache_size) ==
  /\ mrc_prev' = mrc_last
  /\ mrc_last' = [size |-> cache_size,
                  value |-> get_miss_ratio(mrc_curve, cache_size),
                  double |-> fl_get_miss_ratio(mrc_curve, cache_size)]
  /\ UNCHANGED <<mrc_curve, mrc_sane>>
  /\ UNCHANGED <<pipe_vars, rate_vars, alloc_vars, ghost_vars, barrier_vars,
                 more_vars>>

\* MissRatioCurve::check_sanity, the loop from index i on
RECURSIVE check_sanity_loop(_, _, _, _, _)
check_sanity_loop(m, i, min_tick, max_tick, max_mr) ==
  IF i > Len(m.ticks) THEN "ok"
  ELSE LET t == m.ticks[i]
           mr == m.miss_ratios[i]
       IN  IF t < min_tick \/ t > max_tick THEN "tick is out of range"
           ELSE IF QLt(mr, QZero) \/ QLt(max_mr, mr)
             THEN "miss_ratio is out of range"
           ELSE check_sanity_loop(m, i + 1, t, max_tick, mr)

\* MissRatioCurve::check_sanity: the message of the logic_error thrown, or
\* "ok"
check_sanity(m) ==
  IF Len(m.ticks) = 0 THEN "ticks is empty"
  ELSE IF Len(m.ticks) # Len(m.miss_ratios)
    THEN "ticks.size() and miss_ratios.size() mismatches"
  ELSE check_sanity_loop(m, 1, m.ticks[1], m.ticks[Len(m.ticks)], QOne)

\* the curves handed to check_sanity: any ticks, any miss ratios
MaxAnchors == 3
SanityTicks == UNION { [1..n -> 1..3] : n \in 0..MaxAnchors }
SanityMissRatios ==
  UNION { [1..n -> {Q(-1, 2), QZero, Q(1, 2), Q(3, 2)}] : n \in 0..MaxAnchors }

SanityInit ==
  /\ mrc_curve \in [ticks : SanityTicks, miss_ratios : SanityMissRatios]
  /\ mrc_last = NoQuery
  /\ mrc_prev = NoQuery
  /\ mrc_sane = "none"

check_sanity_call ==
  /\ mrc_sane = "none"
  /\ mrc_sane' = check_sanity(mrc_curve)
  /\ UNCHANGED <<mrc_curve, mrc_last, mrc_prev>>
  /\ UNCHANGED <<pipe_vars, rate_vars, alloc_vars, ghost_vars, barrier_vars,
                 more_vars>>

(***************************************************************************)
(* tenant.h: Tenant                                                        *)
(***************************************************************************)
\* params::alloc::memshare::reserved_ratio = 0.5, as numerator / denominator
reserved_ratio == <<1, 2>>

\* the constructor; base_resrc is kept as history
Tenant(demand_cacheless, base_resrc, mrc, net_bw_alpha) ==
  [demand_cacheless |-> demand_cacheless,
   resrc |-> base_resrc,
   mrc |-> mrc,
   net_bw_alpha |-> net_bw_alpha,
   rcu_delta_relinq |-> QZero, rcu_delta_compen |-> QZero,
   net_delta_relinq |-> QZero, net_delta_compen |-> QZero,
   mr_inc_if_more_cache |-> QZero, mr_dec_if_less_cache |-> QZero,
   reserved_cache_size |->
     (base_resrc.cache_size * reserved_ratio[1]) \div reserved_ratio[2],
   base_resrc |-> base_resrc]

\* collect_idle: the demand projected at the current miss ratio
collect_idle_demand(t) ==
  LET mr == get_miss_ratio(t.mrc, t.resrc.cache_size)
      d == t.demand_cacheless
  IN  SVec(QMul(d.db_rcu, mr), d.db_wcu,
           IF alloc_total_net_bw
             THEN QMul(d.net_bw,
                       QAdd(mr, QMul(QSub(QOne, t.net_bw_alpha),
                                     QSub(QOne, mr))))
             ELSE d.net_bw)

\* collect_idle: what the tenant keeps (used = demand * tp)
collect_idle_used(t) ==
  LET demand == collect_idle_demand(t)
      tp == SMinRatio(t.resrc.stateless, demand)
  IN  SScale(demand, tp)

\* collect_idle: what it returns
collect_idle_idle(t) == SSub(t.resrc.stateless, collect_idle_used(t))

collect_idle(t) == [t EXCEPT !.resrc.stateless = collect_idle_used(t)]

\* the offer formulas: r * delta_mr / curr_mr and
\* r * delta_mr * alpha / (curr_mr * alpha + 1 - alpha)

rcu_delta(t, delta_mr, curr_mr) ==
  QDiv(QMul(t.resrc.stateless.db_rcu, delta_mr), curr_mr)
net_delta(t, delta_mr, curr_mr) ==
  QDiv(QMul(QMul(t.resrc.stateless.net_bw, delta_mr), t.net_bw_alpha),
       QSub(QAdd(QMul(curr_mr, t.net_bw_alpha), QOne), t.net_bw_alpha))

pred_rcu_net_delta_if_more_cache(t) ==
  LET curr_mr == get_miss_ratio(t.mrc, t.resrc.cache_size)
      pred_mr == get_miss_ratio(t.mrc, t.resrc.cache_size + cache_delta)
      delta_mr == QSub(curr_mr, pred_mr)
      abort_offer == \/ LeEpilson(curr_mr)
                     \/ QLt(pred_mr, min_miss_ratio)
                     \/ LeEpilson(delta_mr)
  IN  IF abort_offer
        THEN [t EXCEPT !.rcu_delta_relinq = relinq_abort_offer,
                       !.net_delta_relinq =
                          IF alloc_total_net_bw THEN relinq_abort_offer ELSE @]
        ELSE [t EXCEPT !.rcu_delta_relinq = rcu_delta(t, delta_mr, curr_mr),
                       !.net_delta_relinq =
                          IF alloc_total_net_bw
                            THEN net_delta(t, delta_mr, curr_mr) ELSE @]

\* a guard that never stops a tenant from giving up cache
less_cache_below_min_never(cache_size) == FALSE

\* the guard of pred_rcu_net_delta_if_less_cache against going below the
\* least cache size
less_cache_below_min(cache_size) == cache_size < min_cache_size + cache_delta

pred_rcu_net_delta_if_less_cache(t) ==
  LET curr_mr == get_miss_ratio(t.mrc, t.resrc.cache_size)
      pred_mr == get_miss_ratio(t.mrc, USub(t.resrc.cache_size, cache_delta))
      delta_mr == QSub(pred_mr, curr_mr)
      abort == [t EXCEPT !.rcu_delta_compen = compen_abort_offer,
                         !.net_delta_compen =
                            IF alloc_total_net_bw THEN compen_abort_offer ELSE @]
      immediate == [t EXCEPT !.rcu_delta_compen = QZero,
                             !.net_delta_compen =
                                IF alloc_total_net_bw THEN QZero ELSE @]
  IN  IF less_cache_below_min(t.resrc.cache_size) THEN abort
      ELSE IF QLt(max_miss_ratio, pred_mr) THEN abort
      ELSE IF LeEpilson(delta_mr) THEN immediate
      ELSE IF LeEpilson(pred_mr) THEN immediate
      ELSE IF LeEpilson(curr_mr) THEN abort
      ELSE [t EXCEPT !.rcu_delta_compen = rcu_delta(t, delta_mr, curr_mr),
                     !.net_delta_compen =
                        IF alloc_total_net_bw
                          THEN net_delta(t, delta_mr, curr_mr) ELSE QZero]

update_rcu_net_delta(t) ==
  pred_rcu_net_delta_if_less_cache(pred_rcu_net_delta_if_more_cache(t))

update_mr_delta(t) ==
  LET curr_mr == get_miss_ratio(t.mrc, t.resrc.cache_size)
      more_mr == get_miss_ratio(t.mrc, t.resrc.cache_size + cache_delta)
      less_mr == get_miss_ratio(t.mrc, USub(t.resrc.cache_size, cache_delta))
  IN  [t EXCEPT !.mr_inc_if_more_cache = QSub(curr_mr, more_mr),
                !.mr_dec_if_less_cache = QSub(less_mr, curr_mr)]

can_donate(t) == t.resrc.cache_size >= t.reserved_cache_size + cache_delta

scale_stateless_resrc(t, scale_factor) ==
  [t EXCEPT !.resrc.stateless = SScale(@, scale_factor)]

\* a redistribution that always divides evenly
scale_stateless_resrc_by_owned_even(t, avail, sum, even_denom) ==
  LET own == t.resrc.stateless
      f == Q(1, even_denom)
  IN  [t EXCEPT !.resrc.stateless =
         SVec(QAdd(own.db_rcu, QMul(avail.db_rcu, f)),
              QAdd(own.db_wcu, QMul(avail.db_wcu, f)),
              QAdd(own.net_bw, QMul(avail.net_bw, f)))]

\* the share of avail follows what the tenant owns of sum; even division
\* when a field of sum is 0
scale_stateless_resrc_by_owned(t, avail, sum, even_denom) ==
  LET own == t.resrc.stateless
      db_rcu_factor == IF sum.db_rcu # QZero THEN QDiv(own.db_rcu, sum.db_rcu)
                       ELSE Q(1, even_denom)
      db_wcu_factor == IF sum.db_wcu # QZero THEN QDiv(own.db_wcu, sum.db_wcu)
                       ELSE Q(1, even_denom)
      net_bw_factor == IF sum.net_bw # QZero THEN QDiv(own.net_bw, sum.net_bw)
                       ELSE Q(1, even_denom)
  IN  [t EXCEPT !.resrc.stateless =
         SVec(QAdd(own.db_rcu, QMul(avail.db_rcu, db_rcu_factor)),
              QAdd(own.db_wcu, QMul(avail.db_wcu, db_wcu_factor)),
              QAdd(own.net_bw, QMul(avail.net_bw, net_bw_factor)))]

\* a relocate_cache that gives to the receiver and takes from nobody
relocate_cache_undonated(ts, receiver, donator) ==
  [ts EXCEPT ![receiver].resrc.cache_size = @ + cache_delta]

\* relocate_cache(t_receiver, t_donator) on the tenant vector
relocate_cache(ts, receiver, donator) ==
  [ts EXCEPT ![receiver].resrc.cache_size = @ + cache_delta,
             ![donator].resrc.cache_size = USub(@, cache_delta)]

\* relocate_resrc that moves the cache and takes from the relinquishing
\* tenant but credits nobody
relocate_resrc_uncredited(ts, relinq, compen, rcu_relinq, rcu_compen, net_relinq, net_compen) ==
  [ts EXCEPT
     ![compen].resrc.cache_size = USub(@, cache_delta),
     ![relinq].resrc.cache_size = @ + cache_delta,
     ![relinq].resrc.stateless.db_rcu = QSub(@, rcu_relinq),
     ![relinq].resrc.stateless.net_bw =
        IF alloc_total_net_bw THEN QSub(@, net_relinq) ELSE @]

\* relocate_resrc that trades the offers and leaves the cache where it is
relocate_resrc_cache_kept(ts, relinq, compen, rcu_relinq, rcu_compen, net_relinq, net_compen) ==
  [ts EXCEPT
     ![compen].resrc.stateless.db_rcu = QAdd(@, rcu_compen),
     ![relinq].resrc.stateless.db_rcu = QSub(@, rcu_relinq),
     ![compen].resrc.stateless.net_bw =
        IF alloc_total_net_bw THEN QAdd(@, net_compen) ELSE @,
     ![relinq].resrc.stateless.net_bw =
        IF alloc_total_net_bw THEN QSub(@, net_relinq) ELSE @]

\* relocate_resrc(t_relinq, t_compen, ...) on the tenant vector
relocate_resrc(ts, relinq, compen, rcu_relinq, rcu_compen, net_relinq, net_compen) ==
  [ts EXCEPT
     ![compen].resrc.cache_size = USub(@, cache_delta),
     ![relinq].resrc.cache_size = @ + cache_delta,
     ![compen].resrc.stateless.db_rcu = QAdd(@, rcu_compen),
     ![relinq].resrc.stateless.db_rcu = QSub(@, rcu_relinq),
     ![compen].resrc.stateless.net_bw =
        IF alloc_total_net_bw THEN QAdd(@, net_compen) ELSE @,
     ![relinq].resrc.stateless.net_bw =
        IF alloc_total_net_bw THEN QSub(@, net_relinq) ELSE @]

RECURSIVE aggregate_from(_, _)
aggregate_from(ts, i) ==
  IF i > Len(ts) THEN SZero
  ELSE SAdd(ts[i].resrc.stateless, aggregate_from(ts, i + 1))

aggregate_resrc(ts) == aggregate_from(ts, 1)

(***************************************************************************)
(* alloc.h: Allocator.  The inputs of add_tenant are drawn from the sets   *)
(* below; demands and base allocations are componentwise positive.         *)
(***************************************************************************)
MaxTenants == 2

CurveTicks == <<1, 2, 4, 8>>
\* a flat curve, a convex one, and one with a cliff (not convex)
Curves ==
  { [ticks |-> CurveTicks, miss_ratios |-> <<Q(1, 2), Q(1, 2), Q(1, 2), Q(1, 2)>>],
    [ticks |-> CurveTicks, miss_ratios |-> <<QOne, Q(7, 8), Q(3, 4), Q(1, 2)>>],
    [ticks |-> CurveTicks, miss_ratios |-> <<QOne, QOne, Q(1, 2), Q(1, 4)>>] }
Demands == { SVec(QInt(4), QInt(2), QInt(16)), SVec(QInt(1), QInt(4), QInt(4)),
             SVec(QInt(1), QInt(1), QInt(16)) }
CacheSizes == {2, 4}
BaseStateless == SVec(QInt(2), QInt(2), QInt(16))
Alphas == { Q(1, 2) }

Policies ==
  { [harvest |-> h, conserving |-> c, memshare |-> m] :
      h \in BOOLEAN, c \in BOOLEAN, m \in BOOLEAN }

NoHarvest == [prev_estimated_improve_ratio |-> QZero,
              is_rcu_bottleneck |-> FALSE, is_net_bottleneck |-> FALSE,
              rcu_compen_list |-> <<>>, net_compen_list |-> <<>>,
              trade_round |-> 0]

NoHist == [last |-> "none", trades |-> 0, moves |-> 0, assert_ok |-> TRUE,
           relinq |-> 0, compen |-> 0]

\* Allocator(harvest, conserving, memshare); memshare "cannot be both true
\* with harvest"
AllocInit ==
  /\ policy \in {p \in Policies : ~(p.harvest /\ p.memshare)}
  /\ alloc_total_net_bw \in BOOLEAN
  /\ tenants = <<>>
  /\ total_resrc = [cache_size |-> 0, stateless |-> SZero]
  /\ resrc_avail = SZero
  /\ improve_ratio = QZero
  /\ harvest = NoHarvest
  /\ alloc_pc = "setup"
  /\ alloc_hist = NoHist

\* the allocator is not part of the specification: it stays as constructed
AllocIdle ==
  /\ policy = [harvest |-> TRUE, conserving |-> TRUE, memshare |-> FALSE]
  /\ alloc_total_net_bw = TRUE
  /\ tenants = <<>>
  /\ total_resrc = [cache_size |-> 0, stateless |-> SZero]
  /\ resrc_avail = SZero
  /\ improve_ratio = QZero
  /\ harvest = NoHarvest
  /\ alloc_pc = "setup"
  /\ alloc_hist = NoHist

add_tenant(demand_cacheless, base_resrc, mrc, net_bw_alpha) ==
  /\ alloc_pc = "setup"
  /\ Len(tenants) < MaxTenants
  /\ total_resrc' =
       [cache_size |-> total_resrc.cache_size + base_resrc.cache_size,
        stateless |-> SAdd(total_resrc.stateless, base_resrc.stateless)]
  /\ tenants' = Append(tenants,
                       Tenant(demand_cacheless, base_resrc, mrc, net_bw_alpha))
  /\ alloc_hist' = [alloc_hist EXCEPT !.last = "add_tenant"]
  /\ UNCHANGED <<policy, alloc_total_net_bw, resrc_avail, improve_ratio,
                 harvest, alloc_pc>>
  /\ UNCHANGED <<pipe_vars, rate_vars, aux_vars>>

\* a do_alloc that only returns early without any tenant
do_alloc_nothing_to_schedule_empty(n) == n = 0

\* a memshare loop that moves cache whenever it found a donor
memshare_profits_always(mr_dec, mr_inc) == TRUE

\* mr_inc > mr_dec: the move lowers the receiver's miss ratio by more than it
\* raises the donor's
memshare_profits(mr_dec, mr_inc) == QLt(mr_dec, mr_inc)

\* tenants.size() <= 1: nothing to schedule
do_alloc_nothing_to_schedule(n) == n <= 1

\* do_alloc up to the first phase: nothing to schedule with <= 1 tenant
do_alloc_begin ==
  /\ alloc_pc = "setup"
  /\ alloc_pc' = IF do_alloc_nothing_to_schedule(Len(tenants)) THEN "done"
                 ELSE IF policy.memshare THEN "memshare" ELSE "collect"
  /\ alloc_hist' = [alloc_hist EXCEPT !.last = "begin"]
  /\ UNCHANGED <<policy, alloc_total_net_bw, tenants, total_resrc, resrc_avail,
                 improve_ratio, harvest>>
  /\ UNCHANGED <<pipe_vars, rate_vars, aux_vars>>

TenantIdx == 1..Len(tenants)

\* std::max_element(cache_more_list, less_mr_inc), where
\* less_mr_inc(lhs, rhs) is lhs.mr_inc_if_more_cache < rhs.mr_dec_if_less_cache
RECURSIVE max_element_less_mr_inc(_, _, _)
max_element_less_mr_inc(ts, largest, i) ==
  IF i > Len(ts) THEN largest
  ELSE IF QLt(ts[largest].mr_inc_if_more_cache, ts[i].mr_dec_if_less_cache)
    THEN max_element_less_mr_inc(ts, i, i + 1)
    ELSE max_element_less_mr_inc(ts, largest, i + 1)

\* the tenants the donor loop may stop at: not the receiver, able to donate
memshare_donor_candidates(ts, receiver) ==
  {d \in 1..Len(ts) : d # receiver /\ can_donate(ts[d])}

\* the loop walks cache_less_list sorted by mr_dec_if_less_cache (std::sort,
\* order of equal elements unspecified) and stops at the first candidate
memshare_donors(ts, receiver) ==
  LET cand == memshare_donor_candidates(ts, receiver)
  IN  {d \in cand : \A e \in cand :
         QLe(ts[d].mr_dec_if_less_cache, ts[e].mr_dec_if_less_cache)}

\* one iteration of the loop of do_memshare
do_memshare_round ==
  /\ alloc_pc = "memshare"
  /\ LET ts == [i \in TenantIdx |-> update_mr_delta(tenants[i])]
         receiver == max_element_less_mr_inc(ts, 1, 2)
         donors == memshare_donors(ts, receiver)
     IN  IF donors = {} THEN
           /\ tenants' = ts
           /\ alloc_pc' = "collect"
           /\ alloc_hist' = [alloc_hist EXCEPT !.last = "memshare_nodonor"]
         ELSE \E donator \in donors :
           IF memshare_profits(ts[donator].mr_dec_if_less_cache,
                               ts[receiver].mr_inc_if_more_cache) THEN
             /\ tenants' = relocate_cache(ts, receiver, donator)
             /\ alloc_pc' = "memshare"
             /\ alloc_hist' = [alloc_hist EXCEPT !.last = "memshare_move",
                                 !.moves = @ + 1, !.relinq = receiver,
                                 !.compen = donator]
           ELSE
             /\ tenants' = ts
             /\ alloc_pc' = "collect"
             /\ alloc_hist' = [alloc_hist EXCEPT !.last = "memshare_stop",
                                 !.relinq = receiver, !.compen = donator]
  /\ UNCHANGED <<policy, alloc_total_net_bw, total_resrc, resrc_avail,
                 improve_ratio, harvest>>
  /\ UNCHANGED <<pipe_vars, rate_vars, aux_vars>>

RECURSIVE sum_idle(_, _)
sum_idle(ts, i) ==
  IF i > Len(ts) THEN SZero
  ELSE SAdd(collect_idle_idle(ts[i]), sum_idle(ts, i + 1))

\* do_alloc: collect idle resources from every tenant
do_collect_idle ==
  /\ alloc_pc = "collect"
  /\ resrc_avail' = sum_idle(tenants, 1)
  /\ tenants' = [i \in TenantIdx |-> collect_idle(tenants[i])]
  /\ alloc_pc' = IF policy.harvest THEN "harvest_begin" ELSE "redistribute"
  /\ alloc_hist' = [alloc_hist EXCEPT !.last = "collect"]
  /\ UNCHANGED <<policy, alloc_total_net_bw, total_resrc, improve_ratio,
                 harvest>>
  /\ UNCHANGED <<pipe_vars, rate_vars, aux_vars>>

\* estimate_bottleneck(resrc_avail, ...)
estimate_bottleneck(avail) ==
  LET resrc_sum == SSub(total_resrc.stateless, avail)
      ratio == SMinRatio(avail, resrc_sum)
  IN  [estimated_improve_ratio |-> ratio,
       is_rcu_bottleneck |-> (ratio = QDiv(avail.db_rcu, resrc_sum.db_rcu)),
       is_net_bottleneck |-> (ratio = QDiv(avail.net_bw, resrc_sum.net_bw))]

\* do_harvest up to its loop
do_harvest_begin ==
  /\ alloc_pc = "harvest_begin"
  /\ LET e == estimate_bottleneck(resrc_avail)
         ids == [i \in TenantIdx |-> i]
     IN  harvest' = [prev_estimated_improve_ratio |-> e.estimated_improve_ratio,
                     is_rcu_bottleneck |-> e.is_rcu_bottleneck,
                     is_net_bottleneck |-> e.is_net_bottleneck,
                     rcu_compen_list |-> ids,
                     net_compen_list |-> IF alloc_total_net_bw THEN ids ELSE <<>>,
                     trade_round |-> 0]
  /\ tenants' = [i \in TenantIdx |-> update_rcu_net_delta(tenants[i])]
  /\ alloc_pc' = "harvest"
  /\ alloc_hist' = [alloc_hist EXCEPT !.last = "harvest_begin"]
  /\ UNCHANGED <<policy, alloc_total_net_bw, total_resrc, resrc_avail,
                 improve_ratio>>
  /\ UNCHANGED <<pipe_vars, rate_vars, aux_vars>>

\* std::max_element over a sequence of fractions: the first largest position
RECURSIVE max_element(_, _, _)
max_element(vals, largest, i) ==
  IF i > Len(vals) THEN largest
  ELSE IF QLt(vals[largest], vals[i]) THEN max_element(vals, i, i + 1)
  ELSE max_element(vals, largest, i + 1)

\* std::min_element: the first smallest position at or after `smallest`
RECURSIVE min_element(_, _, _)
min_element(vals, smallest, i) ==
  IF i > Len(vals) THEN smallest
  ELSE IF QLt(vals[i], vals[smallest]) THEN min_element(vals, i, i + 1)
  ELSE min_element(vals, smallest, i + 1)

\* std::iter_swap
iter_swap(list, a, b) == [list EXCEPT ![a] = list[b], ![b] = list[a]]

\* the deal the loop of do_harvest looks at in this round
harvest_deal(use_rcu) ==
  LET list == IF use_rcu THEN harvest.rcu_compen_list
              ELSE harvest.net_compen_list
      relinq_vals == [i \in TenantIdx |->
                        IF use_rcu THEN tenants[i].rcu_delta_relinq
                        ELSE tenants[i].net_delta_relinq]
      compen_of(l) == [p \in TenantIdx |->
                         IF use_rcu THEN tenants[l[p]].rcu_delta_compen
                         ELSE tenants[l[p]].net_delta_compen]
      t_relinq == max_element(relinq_vals, 1, 2)
      pos == min_element(compen_of(list), 1, 2)
      same == (list[pos] = t_relinq)
      list2 == IF same THEN iter_swap(list, pos, 1) ELSE list
      pos2 == IF same THEN min_element(compen_of(list2), 2, 3) ELSE pos
  IN  [t_relinq |-> t_relinq, t_compen |-> list2[pos2], list |-> list2]

\* a loop that takes no deal
harvest_accepts_none(curr_ratio, prev_ratio) == FALSE

\* a loop that takes every deal
harvest_accepts_any(curr_ratio, prev_ratio) == TRUE

\* whether the loop accepts the deal: the gain in the estimated improvement
\* ratio reaches min_improve_ratio_delta
harvest_accepts(curr_ratio, prev_ratio) ==
  ~QLt(QSub(curr_ratio, prev_ratio), min_improve_ratio_delta)

\* one iteration of the loop of do_harvest
do_harvest_round ==
  /\ alloc_pc = "harvest"
  /\ IF harvest.trade_round >= max_trade_round
        \/ (~harvest.is_rcu_bottleneck
            /\ ~(alloc_total_net_bw /\ harvest.is_net_bottleneck)) THEN
       /\ alloc_pc' = "redistribute"
       /\ alloc_hist' = [alloc_hist EXCEPT !.last = "harvest_nobottleneck"]
       /\ UNCHANGED <<tenants, resrc_avail, harvest>>
     ELSE
       LET use_rcu == harvest.is_rcu_bottleneck
           deal == harvest_deal(use_rcu)
           t_relinq == tenants[deal.t_relinq]
           t_compen == tenants[deal.t_compen]
           rcu_profit == QSub(t_relinq.rcu_delta_relinq,
                              t_compen.rcu_delta_compen)
           net_profit == QSub(t_relinq.net_delta_relinq,
                              t_compen.net_delta_compen)
           resrc_if_deal == [resrc_avail EXCEPT
                               !.db_rcu = QAdd(@, rcu_profit),
                               !.net_bw = QAdd(@, net_profit)]
           e == estimate_bottleneck(resrc_if_deal)
           h1 == [harvest EXCEPT
                    !.is_rcu_bottleneck = e.is_rcu_bottleneck,
                    !.is_net_bottleneck = e.is_net_bottleneck,
                    !.rcu_compen_list = IF use_rcu THEN deal.list ELSE @,
                    !.net_compen_list = IF use_rcu THEN @ ELSE deal.list]
       IN  IF harvest_accepts(e.estimated_improve_ratio,
                              harvest.prev_estimated_improve_ratio) THEN
             LET ts == relocate_resrc(tenants, deal.t_relinq, deal.t_compen,
                                      t_relinq.rcu_delta_relinq,
                                      t_compen.rcu_delta_compen,
                                      t_relinq.net_delta_relinq,
                                      t_compen.net_delta_compen)
             IN
             /\ harvest' = [h1 EXCEPT
                  !.prev_estimated_improve_ratio = e.estimated_improve_ratio,
                  !.trade_round = @ + 1]
             /\ resrc_avail' = resrc_if_deal
             /\ tenants' = [i \in TenantIdx |->
                  IF i \in {deal.t_relinq, deal.t_compen}
                    THEN update_rcu_net_delta(ts[i]) ELSE ts[i]]
             /\ alloc_pc' = "harvest"
             /\ alloc_hist' = [alloc_hist EXCEPT !.last = "trade",
                                 !.trades = @ + 1, !.relinq = deal.t_relinq,
                                 !.compen = deal.t_compen]
           ELSE
             /\ harvest' = h1
             /\ alloc_pc' = "redistribute"
             /\ alloc_hist' = [alloc_hist EXCEPT !.last = "harvest_cancel",
                                 !.relinq = deal.t_relinq,
                                 !.compen = deal.t_compen]
             /\ UNCHANGED <<tenants, resrc_avail>>
  /\ UNCHANGED <<policy, alloc_total_net_bw, total_resrc, improve_ratio>>
  /\ UNCHANGED <<pipe_vars, rate_vars, aux_vars>>

\* do_alloc from "if (resrc_avail.is_almost_empty()) goto done" to the end,
\* with do_redistribute
do_redistribute ==
  /\ alloc_pc = "redistribute"
  /\ IF is_almost_empty(resrc_avail) THEN
       /\ alloc_hist' = [alloc_hist EXCEPT !.last = "skip_redistribute"]
       /\ UNCHANGED <<tenants, resrc_avail, improve_ratio>>
     ELSE
       LET resrc_sum == SSub(total_resrc.stateless, resrc_avail)
           ratio == SMinRatio(resrc_avail, resrc_sum)
           scaled == [i \in TenantIdx |->
                        scale_stateless_resrc(tenants[i], QAdd(QOne, ratio))]
       IN
       /\ alloc_hist' = [alloc_hist EXCEPT !.last = "redistribute",
            !.assert_ok = is_almost_equal(aggregate_resrc(tenants), resrc_sum)]
       /\ improve_ratio' = ratio
       /\ IF policy.conserving THEN
            /\ tenants' = [i \in TenantIdx |->
                 scale_stateless_resrc_by_owned(tenants[i], resrc_avail,
                                                resrc_sum, Len(tenants))]
            /\ resrc_avail' = SZero
          ELSE
            /\ tenants' = scaled
            /\ resrc_avail' = SSub(total_resrc.stateless,
                                   aggregate_resrc(scaled))
  /\ alloc_pc' = "done"
  /\ UNCHANGED <<policy, alloc_total_net_bw, total_resrc, harvest>>
  /\ UNCHANGED <<pipe_vars, rate_vars, aux_vars>>

(***************************************************************************)
(* The three specifications.                                               *)
(***************************************************************************)
Init == PipeInit /\ RateIdle /\ AllocIdle /\ AuxIdle

Next ==
  \/ \E k \in Keys : HopperGet(k)
  \/ \E k \in Keys, v \in Values : HopperSet(k, v)
  \/ \E k \in Keys, v \in Values : HopperSetC(k, v)
  \/ \E k \in Keys : Evict(k)
  \/ \E k \in Keys : NativeNonStringWrite(k)
  \/ \E rcu_ok, wcu_ok \in BOOLEAN : storage_thread_main(rcu_ok, wcu_ok)
  \/ \E t \in ClientIds : process_task_get_success(t)
  \/ \E t \in ClientIds : process_task_get_failure(t)
  \/ \E t \in ClientIds : process_task_set_success(t)
  \/ \E t \in ClientIds : process_task_set_failure(t)
  \/ \E t \in ClientIds : storage_callback(t)
  \/ \E c \in ClientIds : inflight_callback(c)
  \/ \E t \in ClientIds : reply_callback(t)
  \/ \E found \in BOOLEAN : process_mock_dynamo(found)

Spec == Init /\ [][Next]_vars

InitRate ==
  /\ RateInit /\ AllocIdle /\ AuxIdle
  /\ PipeInit /\ admit_write = TRUE /\ ~mock

NextRate ==
  \/ RateTick
  \/ check_wait_time
  \/ \E c \in 1..MaxCost : consume(c)
  \/ \E r \in 1..MaxRate : propose_new_rate(r)

SpecRate == InitRate /\ [][NextRate]_vars

InitAlloc ==
  /\ AllocInit /\ RateIdle /\ AuxIdle
  /\ PipeInit /\ admit_write = TRUE /\ ~mock

NextAlloc ==
  \/ \E d \in Demands, c \in CacheSizes, m \in Curves, a \in Alphas :
       add_tenant(d, [cache_size |-> c, stateless |-> BaseStateless], m, a)
  \/ do_alloc_begin
  \/ do_memshare_round
  \/ do_collect_idle
  \/ do_harvest_begin
  \/ do_harvest_round
  \/ do_redistribute

SpecAlloc == InitAlloc /\ [][NextAlloc]_vars

InitMrc ==
  /\ MrcInit /\ GhostIdle /\ BarrierIdle /\ AllocIdle /\ RateIdle
  /\ MoreIdle /\ PipeInit /\ admit_write = TRUE /\ ~mock

NextMrc == \E cache_size \in QuerySizes : get_miss_ratio_call(cache_size)

SpecMrc == InitMrc /\ [][NextMrc]_vars

InitSanity ==
  /\ SanityInit /\ GhostIdle /\ BarrierIdle /\ AllocIdle /\ RateIdle
  /\ MoreIdle /\ PipeInit /\ admit_write = TRUE /\ ~mock

NextSanity == check_sanity_call

SpecSanity == InitSanity /\ [][NextSanity]_vars

InitGhost ==
  /\ GhostInit /\ MrcIdle /\ BarrierIdle /\ AllocIdle /\ RateIdle
  /\ MoreIdle /\ PipeInit /\ admit_write = TRUE /\ ~mock

NextGhost ==
  \/ \E k \in GhostKeys, v \in GhostValSizes, u \in BOOLEAN :
       access_key(k, v, u)
  \/ \E k \in GhostKeys, v \in GhostValSizes : update_kv_size(k, v)
  \/ \E opened \in BOOLEAN : RedisModule_HopperGhostSave(opened)
  \/ RedisModule_HopperGhostLoad
  \/ \E t \in GhostTickArgs, lo \in GhostTickArgs, hi \in GhostMaxTickArgs,
        div0 \in {"trap"} :
       HopperConfigSet_ghost_range(t, lo, hi, div0)
  \/ dump_ghc_from_another_platform

SpecGhost == InitGhost /\ [][NextGhost]_vars

NextGhostRange ==
  \/ \E k \in GhostKeys, v \in GhostValSizes, u \in BOOLEAN :
       access_key(k, v, u)
  \/ \E t \in RangeTickArgs, lo \in RangeMinTickArgs,
        hi \in RangeMaxTickArgs, div0 \in DivByZero :
       HopperConfigSet_ghost_range(t, lo, hi, div0)

SpecGhostRange == InitGhost /\ [][NextGhostRange]_vars

InitBarrier ==
  /\ BarrierInit /\ MrcIdle /\ GhostIdle /\ AllocIdle /\ RateIdle
  /\ MoreIdle /\ PipeInit /\ admit_write = TRUE /\ ~mock

NextBarrier ==
  \/ \E c \in BarrierClients, argc \in BarrierArgc :
       RedisModule_HopperBarrierWait(c, argc)
  \/ \E c \in BarrierClients, argc \in BarrierArgc :
       RedisModule_HopperBarrierSignal(c, argc)
  \/ \E c \in BarrierClients, argc \in BarrierArgc :
       RedisModule_HopperBarrierCount(c, argc)
  \/ \E c \in BarrierClients : wait_callback(c)

SpecBarrier == InitBarrier /\ [][NextBarrier]_vars

InitResrc ==
  /\ ResrcInit /\ MrcIdle /\ GhostIdle /\ BarrierIdle /\ AllocIdle /\ RateIdle
  /\ WorkerIdle /\ FrameIdle /\ LateIdle
  /\ PipeInit /\ admit_write = TRUE /\ ~mock

NextResrc ==
  \/ \E argc \in {1, 2} : RedisModule_HopperResrcGet(argc)
  \/ \E c \in ResrcArgs, r \in ResrcArgs, w \in ResrcArgsFew,
        n \in ResrcArgsFew, ok \in BOOLEAN :
       RedisModule_HopperResrcSet(5, c, r, w, n, ok)
  \/ \E c \in ResrcArgs :
       RedisModule_HopperResrcSet(4, c, c, c, c, TRUE)

SpecResrc == InitResrc /\ [][NextResrc]_vars

InitWorker ==
  /\ WorkerInit /\ ResrcIdle /\ FrameIdle /\ MrcIdle /\ GhostIdle /\ BarrierIdle
  /\ LateIdle
  /\ AllocIdle /\ RateIdle /\ PipeInit /\ admit_write = TRUE /\ ~mock

NextWorker ==
  \/ WorkerTick
  \/ \E t \in WorkerTasks : get_async(t)
  \/ \E t \in WorkerTasks, v \in WorkerValSizes : set_async(t, v)
  \/ \E ok \in BOOLEAN, v \in WorkerValSizes :
       storage_thread_main_iteration(ok, v)
  \/ \E t \in WorkerTasks, ok \in BOOLEAN, v \in WorkerValSizes :
       getAsync_callback(t, ok, v)
  \/ \E t \in WorkerTasks, ok \in BOOLEAN : putAsync_callback(t, ok)

SpecWorker == InitWorker /\ [][NextWorker]_vars

InitFrame ==
  /\ FrameInit /\ ResrcIdle /\ WorkerIdle /\ MrcIdle /\ GhostIdle
  /\ BarrierIdle /\ AllocIdle /\ RateIdle /\ PipeInit /\ LateIdle
  /\ admit_write = TRUE /\ ~mock

NextFrame ==
  \/ \E d \in {1, 10, 37} : FrameTick(d)
  \/ check_wait_time_double
  \/ consume_double(1)
  \/ \E r \in 1..MaxRate : propose_new_rate_double(r)

SpecFrame == InitFrame /\ [][NextFrame]_vars

(***************************************************************************)
(* tests/test_alloc.cpp: the allocator fed with the tenants of             *)
(* test_rw_ratio and test_trade_basic (sizes in units of cache_delta; the  *)
(* tests set cache_delta = min_cache_size).                                *)
(***************************************************************************)
\* test_rw_ratio: miss ratio 1 at every tick
rw_ratio_mrc ==
  [ticks |-> <<1, 2, 4, 8, 10>>,
   miss_ratios |-> <<QOne, QOne, QOne, QOne, QOne>>]
\* test_trade_basic: miss_ratios_1 and miss_ratios_2
trade_basic_mrc_1 ==
  [ticks |-> <<2, 4, 6, 8, 10>>,
   miss_ratios |-> <<Q(9, 10), Q(17, 20), Q(4, 5), Q(7, 10), Q(1, 2)>>]
trade_basic_mrc_2 ==
  [ticks |-> <<2, 4, 6, 8, 10>>,
   miss_ratios |-> <<Q(4, 5), Q(3, 5), Q(3, 10), Q(1, 5), Q(3, 20)>>]
TestCurves == {rw_ratio_mrc, trade_basic_mrc_1, trade_basic_mrc_2}
\* demand_1 and demand_2 of test_rw_ratio (demand_1 is test_trade_basic's)
demand_1 == SVec(Q(4, 5), Q(1, 5), QInt(4))
demand_2 == SVec(Q(1, 5), Q(4, 5), QInt(4))
TestDemands == {demand_1, demand_2}
\* base_resrc: TICK_UNIT(2) in test_rw_ratio, TICK_UNIT(4) in test_trade_basic
TestCacheSizes == {2, 4}

\* main() of the tests: params::policy::set_alloc_total_net_bw(false)
InitAllocTest ==
  /\ AllocInit /\ ~alloc_total_net_bw
  /\ RateIdle /\ AuxIdle /\ PipeInit /\ admit_write = TRUE /\ ~mock

\* test_rw_ratio and test_trade_basic register two tenants before do_alloc
TestTenants == 2

NextAllocTest ==
  \/ \E d \in TestDemands, c \in TestCacheSizes, m \in TestCurves :
       /\ Len(tenants) < TestTenants
       /\ add_tenant(d, [cache_size |-> c, stateless |-> BaseStateless], m,
                    QZero)
  \/ do_alloc_begin
  \/ do_memshare_round
  \/ do_collect_idle
  \/ do_harvest_begin
  \/ do_harvest_round
  \/ do_redistribute

SpecAllocTest == InitAllocTest /\ [][NextAllocTest]_vars

(***************************************************************************)
(* Properties of the request pipeline (Spec).                              *)
(***************************************************************************)
\* C1: inflight dedup.  For a Get task t that no SET on its key has crossed:
\* while t's callback has not run, every later GET that missed on the key is
\* a dependent of t (so t is the only task pushed for them); t's dependents
\* are exactly those clients; and once t completed Ok, the owner and every
\* dependent is handed the one fetched value.
C1_InflightDedup ==
  \A t \in ClientIds : (task[t].type = "GET" /\ ~task[t].set_seen) =>
    LET k == task[t].key
        arrivals == {c \in ClientIds : /\ c > t
                                       /\ client[c].cmd = "get"
                                       /\ client[c].key = k
                                       /\ client[c].role \in {"owner", "dep"}}
        deps == {c \in ClientIds : client[c].role = "dep" /\ client[c].waits = t}
    IN  /\ task[t].stage # "done" => arrivals = deps
        /\ Len(task[t].dependents) = Cardinality(deps)
        /\ \A i \in 1..Len(task[t].dependents) : task[t].dependents[i] \in deps
        /\ Cardinality({c \in ClientIds :
                          /\ task[c].type = "GET" /\ task[c].key = k
                          /\ c >= t /\ task[c].stage # "done"
                          /\ task[t].stage # "done"}) <= 1
        /\ (task[t].stage = "done" /\ task[t].status = "OK") =>
             /\ client[t].reply = task[t].value
             /\ \A c \in deps : /\ client[c].unblocks = 1
                                /\ client[c].privdata = task[t].value
                                /\ client[c].reply \in {NoReply, task[t].value}

\* three GETs on a cold key, one task, two dependents, all replied alike
C1_Witness ==
  \E t \in ClientIds :
    /\ task[t].type = "GET" /\ ~task[t].set_seen
    /\ task[t].stage = "done" /\ task[t].status = "OK"
    /\ Len(task[t].dependents) = 2
    /\ \A c \in ClientIds : client[c].cmd = "get" /\ client[c].reply = task[t].value

\* C2: a SET (not a wrongtype one) that runs between the registration of a
\* Get task and its callback erases the registry entry, makes the callback's
\* end_inflight return false, and keeps the fetched value out of the cache,
\* whatever cache.admit_write is.
C2_SetInvalidates ==
  \A t \in ClientIds : (task[t].type = "GET" /\ task[t].set_seen) =>
    /\ <<task[t].key, t>> \notin inflight_map
    /\ task[t].stage = "done" => ~task[t].update_cache
    /\ cache_src[task[t].key] # <<"get", t>>

\* C3: with cache.admit_write on, a Get task crossed by a SET still replies
\* to its client, never writes what it fetched into the slot, the slot a SET
\* wrote last holds that SET's value (unless its upstream write failed), and
\* a GET that arrives while the slot is the SET's is a hit on that value that
\* enqueues nothing.
C3_SetWinsOverGet ==
  /\ [](admit_write =>
          /\ \A t \in ClientIds : (task[t].type = "GET" /\ task[t].set_seen) =>
               /\ task[t].stage = "done" =>
                    client[t].reply # NoReply /\ ~task[t].update_cache
               /\ cache_src[task[t].key] # <<"get", t>>
          /\ \A k \in Keys :
               (cache_src[k][1] = "set" /\ task[cache_src[k][2]].status # "ERR")
                 => cache[k] = task[cache_src[k][2]].value)
  /\ [][\A k \in Keys :
          ( /\ admit_write
            /\ cache_src[k][1] = "set"
            /\ task[cache_src[k][2]].status # "ERR"
            /\ \E t \in ClientIds : /\ task[t].type = "GET"
                                    /\ task[t].key = k /\ task[t].set_seen
            /\ next_client' = next_client + 1
            /\ client'[next_client'].cmd = "get"
            /\ client'[next_client'].key = k )
          => /\ client'[next_client'].role = "hit"
             /\ client'[next_client'].reply = task[cache_src[k][2]].value
             /\ task_get_queue' = task_get_queue
             /\ task' = task]_vars

\* GET on a cold key, SET v2 while the task is out, the task completes with
\* the table's old value, the next GET hits v2
C3_Witness ==
  \E t, s, h \in ClientIds :
    /\ admit_write
    /\ task[t].type = "GET" /\ task[t].set_seen /\ task[t].stage = "done"
    /\ task[t].status = "OK" /\ client[t].reply = task[t].value
    /\ task[s].type = "SET" /\ cache_src[task[t].key] = <<"set", s>>
    /\ task[s].value # task[t].value
    /\ h > s /\ client[h].cmd = "get" /\ client[h].role = "hit"
    /\ client[h].reply = task[s].value

C9_RegistryOnePerKey ==
  /\ begin_assert_ok
  /\ \A k \in Keys : Cardinality({p \in inflight_map : p[1] = k}) <= 1

\* two Get tasks for one key are out at once, one of them registered
C9_Witness ==
  \E t1, t2 \in ClientIds :
    /\ t1 < t2
    /\ task[t1].type = "GET" /\ task[t2].type = "GET"
    /\ task[t1].key = task[t2].key
    /\ task[t1].stage # "done" /\ task[t2].stage # "done"
    /\ inflight_map = {<<task[t2].key, t2>>}

\* C10: in the step in which the callback of Get task t runs, end_inflight
\* returns true and erases the entry exactly when the entry stored for the
\* key is t; otherwise it returns false and the registry is left as it was.
C10_EndInflight ==
  [][\A t \in ClientIds :
       (task[t].type = "GET" /\ task[t].stage = "unblocked"
          /\ task'[t].stage = "done") =>
         LET stored == <<task[t].key, t>> \in inflight_map
         IN  /\ task'[t].update_cache <=> stored
             /\ stored => inflight_map' = inflight_map \ {<<task[t].key, t>>}
             /\ ~stored => inflight_map' = inflight_map]_vars

\* a stale task has completed without touching the entry of a newer task
C10_Witness ==
  \E t, t2 \in ClientIds :
    /\ t # t2
    /\ task[t].type = "GET" /\ task[t].stage = "done" /\ ~task[t].update_cache
    /\ task[t2].type = "GET" /\ task[t2].key = task[t].key
    /\ <<task[t2].key, t2>> \in inflight_map

(***************************************************************************)
(* Properties of the rate limiter (SpecRate).                              *)
(***************************************************************************)
\* C8: with a constant rate, what has been consumed since construction stays
\* within rate * (length of the frames started so far) plus a fixed
\* allowance.  The allowance taken here is a whole frame's budget plus one
\* operation of the largest cost, which is more than a single frame can
\* overshoot by.
C8_ThroughputBound ==
  rl_nprop = 0 =>
    rl_total <= rl_rate * TIME_FRAME_LEN * ((rl_now \div TIME_FRAME_LEN) + 1)
                  + (rl_rate * TIME_FRAME_LEN + MaxCost)

(***************************************************************************)
(* Properties of the allocator (SpecAlloc).                                *)
(***************************************************************************)
\* C5: under the conserving policy with two or more tenants, the tenants'
\* stateless allocations plus the pool of available resources add up to the
\* total that was added, within the epsilons, at every point of do_alloc;
\* once do_alloc is done the tenants' allocations alone add up to it.
C5_Conservation ==
  (policy.conserving /\ Len(tenants) >= 2 /\ alloc_pc # "setup") =>
    is_almost_equal(
      SAdd(aggregate_resrc(tenants),
           IF alloc_pc = "done" THEN SZero ELSE resrc_avail),
      total_resrc.stateless)

\* do_alloc is done after a committed trade and a redistribution
C5_Witness ==
  /\ policy.conserving /\ Len(tenants) >= 2 /\ alloc_pc = "done"
  /\ alloc_hist.trades >= 1 /\ alloc_hist.last = "redistribute"
  /\ \E i \in 1..Len(tenants) :
       tenants[i].resrc.stateless # tenants[i].base_resrc.stateless

C11_StatusOnce ==
  /\ [](\A t \in ClientIds : task[t].type # "none" =>
          /\ client[t].unblocks <= 1
          /\ (task[t].status = "NONE") <=> (client[t].unblocks = 0)
          /\ (task[t].status = "NONE") <=>
               (task[t].stage \in {"queued", "submitted", "mocked"}))
  /\ [][\A t \in ClientIds :
          /\ task[t].status # "NONE" => task'[t].status = task[t].status
          /\ task'[t].status # task[t].status =>
               /\ task[t].type # "none"
               /\ task'[t].status \in {"OK", "ERR"}
               /\ client'[t].unblocks = client[t].unblocks + 1
          /\ (task[t].stage = "unblocked" /\ task'[t].stage = "done") =>
               task[t].status \in {"OK", "ERR"}]_vars

\* a mocked GET that failed and a mocked SET have both been through their
\* reply callbacks
C11_Witness ==
  \E t, u \in ClientIds :
    /\ task[t].via_mock /\ task[t].type = "GET" /\ task[t].status = "ERR"
    /\ task[t].stage = "done"
    /\ task[u].via_mock /\ task[u].type = "SET" /\ task[u].status = "OK"
    /\ task[u].stage = "done"
(***************************************************************************)
(* C12: when the upstream write of a SET has failed, the SET's reply       *)
(* callback deletes the key's slot and replies an error: right after the   *)
(* callback the cache holds nothing for the key, whatever the slot held    *)
(* before it (the SET's own value, a later SETC's or GET's value, a value  *)
(* of another type, or nothing).                                           *)
(***************************************************************************)
C12_FailedSetDeletes ==
  [][\A t \in ClientIds :
       (/\ task[t].type = "SET" /\ task[t].status = "ERR"
        /\ task[t].stage = "unblocked" /\ task'[t].stage = "done")
       => /\ cache'[task[t].key] = KEY_EMPTY
          /\ client'[t].reply = ReplyErr]_vars

\* the callback of a failed SET was the last to touch the slot, after a
\* native command had stored a value of another type under the key and after
\* a later SETC had been refused for it
C12_Witness ==
  \E t, u \in ClientIds :
    /\ task[t].type = "SET" /\ task[t].status = "ERR" /\ task[t].stage = "done"
    /\ cache_src[task[t].key] = <<"setfail", t>>
    /\ cache[task[t].key] = KEY_EMPTY
    /\ client[t].reply = ReplyErr
    /\ u > t /\ client[u].cmd = "setc" /\ client[u].key = task[t].key
    /\ client[u].role = "wrongtype"
(***************************************************************************)
(* C13: when the upstream Get of a task has failed (status ERR), its       *)
(* storage_callback replies an error to the owner, unblocks every          *)
(* dependent of the task with no data, leaves the cache untouched and      *)
(* removes the task's registry entry if it is still there; every           *)
(* dependent of a failed task that has been replied to got an error, and   *)
(* no client is left waiting on a task whose callback has run (a later GET *)
(* on the key does not attach to the failed task).                         *)
(***************************************************************************)
C13_FailedGet ==
  /\ [](\A c \in ClientIds :
          (client[c].role = "dep" /\ task[client[c].waits].status = "ERR") =>
            /\ client[c].reply \in {NoReply, ReplyErr}
            /\ task[client[c].waits].stage = "done" => client[c].unblocks = 1)
  /\ [][\A t \in ClientIds :
          (/\ task[t].type = "GET" /\ task[t].status = "ERR"
           /\ task[t].stage = "unblocked" /\ task'[t].stage = "done")
          => /\ client'[t].reply = ReplyErr
             /\ \A i \in 1..Len(task[t].dependents) :
                  LET d == task[t].dependents[i] IN
                    /\ client'[d].unblocks = client[d].unblocks + 1
                    /\ client'[d].privdata = NullData
             /\ cache' = cache
             /\ inflight_map' = inflight_map \ {<<task[t].key, t>>}]_vars

\* a Get failed; its owner and a dependent were replied an error, and a GET
\* issued afterwards on the same key owns a fetch of its own
C13_Witness ==
  \E t, d, u \in ClientIds :
    /\ task[t].type = "GET" /\ task[t].status = "ERR" /\ task[t].stage = "done"
    /\ client[t].reply = ReplyErr
    /\ client[d].role = "dep" /\ client[d].waits = t
    /\ client[d].reply = ReplyErr
    /\ u > d /\ client[u].cmd = "get" /\ client[u].key = task[t].key
    /\ client[u].role = "owner"
(***************************************************************************)
(* C14: do_alloc on an allocator with no tenant or one tenant returns      *)
(* improvement ratio 0 and changes nothing: it ends at its first step, and *)
(* when it has ended the tenant is exactly as add_tenant built it (same    *)
(* cache size, same stateless resources), nothing was collected.           *)
(***************************************************************************)
C14_NoopUpToOneTenant ==
  /\ []((alloc_pc # "setup" /\ Len(tenants) <= 1) =>
          /\ alloc_pc = "done"
          /\ improve_ratio = QZero
          /\ resrc_avail = SZero
          /\ \A i \in 1..Len(tenants) :
               tenants[i] = Tenant(tenants[i].demand_cacheless,
                                   tenants[i].base_resrc, tenants[i].mrc,
                                   tenants[i].net_bw_alpha))
  /\ [][(alloc_pc = "setup" /\ alloc_pc' # "setup" /\ Len(tenants) <= 1) =>
          /\ tenants' = tenants
          /\ total_resrc' = total_resrc
          /\ improve_ratio' = QZero]_vars

\* do_alloc has run on an allocator with exactly one tenant, whose demand
\* leaves resources idle
C14_Witness ==
  /\ alloc_pc = "done" /\ Len(tenants) = 1
  /\ ~is_almost_empty(collect_idle_idle(tenants[1]))
(***************************************************************************)
(* C15: cache-unaware DRF.  When the miss ratio of every tenant is 1 at    *)
(* every cache size, do_alloc moves no cache (no trade, every cache size   *)
(* as it was) and hands out the collected idle resources in proportion to  *)
(* use: in each dimension, what a tenant gains on top of what it uses is   *)
(* the same multiple of its use for all tenants.  For the two tenants of   *)
(* test_rw_ratio (cache 2 units, stateless (2, 2, 16), demands             *)
(* (0.8, 0.2, 4) and (0.2, 0.8, 4)) under the default policy the result is *)
(* (3.2, 0.8, 16) and (0.8, 3.2, 16) within 0.01.                          *)
(***************************************************************************)
C15_CacheUnawareDRF ==
  (alloc_pc = "done" /\ Len(tenants) >= 2 /\
   \A i \in TenantIdx : tenants[i].mrc = rw_ratio_mrc) =>
    LET init(i) == Tenant(tenants[i].demand_cacheless, tenants[i].base_resrc,
                          tenants[i].mrc, tenants[i].net_bw_alpha)
        used(i) == collect_idle_used(init(i))
        gain(i) == SSub(tenants[i].resrc.stateless, used(i))
        near(x, n, d) == QLt(QAbs(QSub(x, Q(n, d))), Q(1, 100))
    IN  /\ alloc_hist.trades = 0 /\ alloc_hist.moves = 0
        /\ \A i \in TenantIdx :
             tenants[i].resrc.cache_size = tenants[i].base_resrc.cache_size
        /\ \A i, j \in TenantIdx :
             /\ QMul(gain(i).db_rcu, used(j).db_rcu) =
                  QMul(gain(j).db_rcu, used(i).db_rcu)
             /\ QMul(gain(i).db_wcu, used(j).db_wcu) =
                  QMul(gain(j).db_wcu, used(i).db_wcu)
             /\ QMul(gain(i).net_bw, used(j).net_bw) =
                  QMul(gain(j).net_bw, used(i).net_bw)
        /\ (/\ Len(tenants) = 2
            /\ policy = [harvest |-> TRUE, conserving |-> TRUE,
                         memshare |-> FALSE]
            /\ tenants[1].demand_cacheless = demand_1
            /\ tenants[2].demand_cacheless = demand_2
            /\ tenants[1].base_resrc.cache_size = 2
            /\ tenants[2].base_resrc.cache_size = 2)
           => /\ near(tenants[1].resrc.stateless.db_rcu, 32, 10)
              /\ near(tenants[1].resrc.stateless.db_wcu, 8, 10)
              /\ near(tenants[1].resrc.stateless.net_bw, 16, 1)
              /\ near(tenants[2].resrc.stateless.db_rcu, 8, 10)
              /\ near(tenants[2].resrc.stateless.db_wcu, 32, 10)
              /\ near(tenants[2].resrc.stateless.net_bw, 16, 1)

\* do_alloc has run on the two tenants of test_rw_ratio and some idle
\* resources were handed out
C15_Witness ==
  /\ alloc_pc = "done" /\ Len(tenants) = 2
  /\ policy = [harvest |-> TRUE, conserving |-> TRUE, memshare |-> FALSE]
  /\ \A i \in TenantIdx :
       tenants[i].mrc = rw_ratio_mrc /\ tenants[i].base_resrc.cache_size = 2
  /\ tenants[1].demand_cacheless = demand_1
  /\ tenants[2].demand_cacheless = demand_2
  /\ tenants[1].resrc.stateless.db_rcu = Q(16, 5)
  /\ alloc_hist.last = "redistribute"
(***************************************************************************)
(* C16: trade basic.  With alloc_total_net_bw off, cache_delta equal to    *)
(* min_cache_size, the default policy and the two tenants of               *)
(* test_trade_basic (cache 4 units, stateless (2, 2, 16), demand           *)
(* (0.8, 0.2, 4), alpha 0, miss_ratios_1 for A and miss_ratios_2 for B),   *)
(* do_alloc makes exactly two trades, each moving one cache_delta from A   *)
(* to B, and ends with A = (2, 2.75, 1.69, 13.56) and                      *)
(* B = (6, 1.25, 2.31, 18.44), each stateless component within 0.01.       *)
(***************************************************************************)
C16_TradeBasic ==
  (/\ alloc_pc = "done" /\ Len(tenants) = 2
   /\ policy = [harvest |-> TRUE, conserving |-> TRUE, memshare |-> FALSE]
   /\ ~alloc_total_net_bw /\ cache_delta = min_cache_size
   /\ tenants[1].mrc = trade_basic_mrc_1 /\ tenants[2].mrc = trade_basic_mrc_2
   /\ \A i \in TenantIdx :
        /\ tenants[i].demand_cacheless = demand_1
        /\ tenants[i].base_resrc.cache_size = 4
        /\ tenants[i].net_bw_alpha = QZero) =>
    LET near(x, n, d) == QLt(QAbs(QSub(x, Q(n, d))), Q(1, 100))
        A == tenants[1].resrc
        B == tenants[2].resrc
    IN  /\ alloc_hist.trades = 2
        /\ A.cache_size = 2 /\ B.cache_size = 6
        /\ near(A.stateless.db_rcu, 275, 100)
        /\ near(A.stateless.db_wcu, 169, 100)
        /\ near(A.stateless.net_bw, 1356, 100)
        /\ near(B.stateless.db_rcu, 125, 100)
        /\ near(B.stateless.db_wcu, 231, 100)
        /\ near(B.stateless.net_bw, 1844, 100)

\* do_alloc has run to its end on the two tenants of test_trade_basic
C16_Witness ==
  /\ alloc_pc = "done" /\ Len(tenants) = 2
  /\ policy = [harvest |-> TRUE, conserving |-> TRUE, memshare |-> FALSE]
  /\ tenants[1].mrc = trade_basic_mrc_1 /\ tenants[2].mrc = trade_basic_mrc_2
  /\ \A i \in TenantIdx :
       /\ tenants[i].demand_cacheless = demand_1
       /\ tenants[i].base_resrc.cache_size = 4
  /\ tenants[2].resrc.cache_size = 6
  /\ alloc_hist.last = "redistribute"
(***************************************************************************)
(* Properties of the miss ratio curve (SpecMrc).                           *)
(***************************************************************************)
(***************************************************************************)
(* C17: for a curve with strictly increasing ticks and non-increasing miss *)
(* ratios in [0, 1], the miss ratio returned never increases with the      *)
(* cache size (of two calls, the one with the larger size returns no       *)
(* more), and every value returned lies between the miss ratios of the two *)
(* neighbouring anchors, (0, 1) being the left anchor below the first      *)
(* tick.  Stated of the doubles the code returns.                          *)
(***************************************************************************)
C17_MonotoneInterpolation ==
  LET ticks == mrc_curve.ticks
      n == Len(ticks)
      mr(i) == fl(mrc_curve.miss_ratios[i])
      x == mrc_last.size
      v == mrc_last.double
  IN  /\ (mrc_prev.size >= 0 /\ mrc_prev.size <= x) =>
           QLe(v, mrc_prev.double)
      /\ (x >= 0 /\ x < ticks[1]) => QLe(mr(1), v) /\ QLe(v, QOne)
      /\ x > ticks[n] => v = mr(n)
      /\ (x >= ticks[1] /\ x <= ticks[n]) =>
           LET i == lower_bound(ticks, x)
           IN  IF x = ticks[i] THEN v = mr(i)
               ELSE QLe(mr(i), v) /\ QLe(v, mr(i - 1))

(***************************************************************************)
(* C18: the query rules with the default parameters.  A query at a tick    *)
(* returns that anchor's miss ratio; a query strictly between two anchors  *)
(* returns the value of the straight line through them; a query below the  *)
(* first tick returns the value of the straight line through (0, 1) and    *)
(* the first anchor, so size 0 returns 1; a query above the last tick      *)
(* returns the last anchor's miss ratio.  The doubles the code returns     *)
(* are these values up to rounding, and are exact at the anchors and at    *)
(* size 0.  On the curve of test_basic the values are the ones the test    *)
(* expects.                                                                *)
(***************************************************************************)
C18_QueryRules ==
  LET ticks == mrc_curve.ticks
      m == mrc_curve.miss_ratios
      n == Len(ticks)
      x == mrc_last.size
      v == mrc_last.value
      line(x0, y0, x1, y1) ==
        QAdd(y0, QMul(QSub(y1, y0), Q(x - x0, x1 - x0)))
      near(a, b, eps) == QLe(QAbs(QSub(a, b)), eps)
      expected == [s \in TestSizes |->
        CASE s = 0 -> QOne [] s = 5 -> Q(95, 100) [] s = 7 -> Q(93, 100)
          [] s = 10 -> Q(9, 10) [] s = 20 -> Q(8, 10) [] s = 25 -> Q(775, 1000)
          [] s = 30 -> Q(75, 100) [] s = 40 -> Q(7, 10) [] s = 50 -> Q(675, 1000)
          [] s = 60 -> Q(65, 100) [] s = 80 -> Q(6, 10)]
  IN  x >= 0 =>
        /\ \A i \in 1..n : x = ticks[i] =>
             v = m[i] /\ mrc_last.double = fl(m[i])
        /\ \A i \in 1..(n - 1) : (ticks[i] < x /\ x < ticks[i + 1]) =>
             v = line(ticks[i], m[i], ticks[i + 1], m[i + 1])
        /\ x < ticks[1] => v = line(0, QOne, ticks[1], m[1])
        /\ x = 0 => v = QOne /\ mrc_last.double = QOne
        /\ x > ticks[n] => v = m[n] /\ mrc_last.double = fl(m[n])
        /\ near(mrc_last.double, v, Q(1, Pow2(Significand - 2)))
        /\ (mrc_curve = test_basic_mrc /\ x \in TestSizes) => v = expected[x]

\* the curve of test_basic was asked for size 25, between two anchors, after
\* it had been asked for size 0
C18_Witness ==
  /\ mrc_curve = test_basic_mrc
  /\ mrc_last.size = 25 /\ mrc_last.value = Q(31, 40)
  /\ mrc_prev.size = 0 /\ mrc_prev.value = QOne
(***************************************************************************)
(* Properties of the ghost cache checkpoint (SpecGhost).                   *)
(***************************************************************************)
\* C19 as stated: when the ghost cache is what init() loaded into a new
\* cache from the file the last save wrote, and the range is the one the
\* saved cache had, get_cache_stat_curve() equals the saved cache's in every
\* tier and every component (key count, aggregate kv size, hit count, miss
\* count), and the LRU order equals the saved cache's.
C19_RoundTripFull ==
  (/\ ghost_hist.reloaded
   /\ ghost_cache.tick = ghost_hist.saved.tick
   /\ ghost_cache.min_tick = ghost_hist.saved.min_tick
   /\ ghost_cache.max_tick = ghost_hist.saved.max_tick)
  => /\ get_cache_stat_curve(ghost_cache)
          = get_cache_stat_curve(ghost_hist.saved)
     /\ for_each_lru(ghost_cache) = for_each_lru(ghost_hist.saved)

\* C19 amended: under the same conditions the curve equals the saved
\* cache's in key count and aggregate kv size in every tier and the LRU
\* order equals the saved cache's; the hit and miss counts of the reloaded
\* cache are zero in every tier, whatever the saved cache had counted.
C19_RoundTrip ==
  (/\ ghost_hist.reloaded
   /\ ghost_cache.tick = ghost_hist.saved.tick
   /\ ghost_cache.min_tick = ghost_hist.saved.min_tick
   /\ ghost_cache.max_tick = ghost_hist.saved.max_tick)
  => /\ \A s \in DOMAIN ghost_cache.stat :
          /\ get_cache_stat_curve(ghost_cache)[s].count
               = get_cache_stat_curve(ghost_hist.saved)[s].count
          /\ get_cache_stat_curve(ghost_cache)[s].size
               = get_cache_stat_curve(ghost_hist.saved)[s].size
          /\ get_cache_stat_curve(ghost_cache)[s].cache_stat = NoCacheStat
     /\ for_each_lru(ghost_cache) = for_each_lru(ghost_hist.saved)

\* a cache of two entries of different sizes that had counted a hit and a
\* miss was saved and reloaded under the same range
C19_Witness ==
  /\ ghost_hist.reloaded
  /\ ghost_cache.tick = ghost_hist.saved.tick
  /\ ghost_cache.min_tick = ghost_hist.saved.min_tick
  /\ ghost_cache.max_tick = ghost_hist.saved.max_tick
  /\ Len(ghost_hist.saved.lru) = 2
  /\ ghost_hist.saved.lru[1].kv_size # ghost_hist.saved.lru[2].kv_size
  /\ \E s \in DOMAIN ghost_hist.saved.stat :
       /\ ghost_hist.saved.stat[s].hit_cnt > 0
       /\ ghost_hist.saved.stat[s].miss_cnt > 0

C21_RateAtRollover ==
  [][/\ \A r \in 1..MaxRate :
          propose_new_rate(r)
            => /\ rl_rate' = rl_rate
               /\ rl_wait' = rl_wait
               /\ rl_frame_begin' = rl_frame_begin
               /\ rl_progress' = rl_progress
     /\ rl_rate' # rl_rate
          => /\ check_wait_time
             /\ update_time_frame_rollover(rl_now, rl_frame_begin)
     /\ (check_wait_time
         /\ ~update_time_frame_rollover(rl_now, rl_frame_begin))
          => /\ rl_rate' = rl_rate
             /\ rl_wait'[2] = rl_rate
     /\ (check_wait_time
         /\ update_time_frame_rollover(rl_now, rl_frame_begin)
         /\ rl_hist.pending # <<>>)
          => /\ rl_rate' = rl_hist.pending[Len(rl_hist.pending)]
             /\ rl_wait'[2] = rl_hist.pending[Len(rl_hist.pending)]
    ]_vars

\* two different rates were proposed within one frame and the rollover that
\* followed left the rate at the second
C21_Witness ==
  /\ Len(rl_hist.applied) = 2
  /\ rl_hist.applied[1] # rl_hist.applied[2]
  /\ rl_hist.pending = <<>>
  /\ rl_rate = rl_hist.applied[2]
  /\ rl_frame_begin >= TIME_FRAME_LEN

(***************************************************************************)
(* Properties of RESRC.SET (SpecResrc).                                    *)
(***************************************************************************)
\* C22: in a RESRC.SET with five words, if one of the four arguments fails
\* to parse the reply is an error and maxmemory, the three proposed limiter
\* rates and the values RESRC.GET reports are all unchanged; if all parse,
\* every dimension whose argument is negative keeps its cap and its reported
\* value, and when the command replies OK every dimension whose argument is
\* not negative has that argument as its cap and as its reported value.
\* RESRC.GET reports the recorded values.
C22_ResrcSetDimensions ==
  [][/\ \A c \in ResrcArgs, r \in ResrcArgs, w \in ResrcArgsFew,
          n \in ResrcArgsFew, ok \in BOOLEAN :
          RedisModule_HopperResrcSet(5, c, r, w, n, ok) =>
            IF ~c.ok \/ ~r.ok \/ ~w.ok \/ ~n.ok THEN
              /\ resrc_reply'[1] \notin {"OK", "none", "Array"}
              /\ UNCHANGED <<allocated_resrc, maxmemory, proposed_rate>>
            ELSE
              /\ c.val < 0 =>
                   /\ maxmemory' = maxmemory
                   /\ allocated_resrc'.cache_size = allocated_resrc.cache_size
              /\ r.val < 0 =>
                   /\ proposed_rate'.db_rcu = proposed_rate.db_rcu
                   /\ allocated_resrc'.db_rcu = allocated_resrc.db_rcu
              /\ w.val < 0 =>
                   /\ proposed_rate'.db_wcu = proposed_rate.db_wcu
                   /\ allocated_resrc'.db_wcu = allocated_resrc.db_wcu
              /\ n.val < 0 =>
                   /\ proposed_rate'.net_bw = proposed_rate.net_bw
                   /\ allocated_resrc'.net_bw = allocated_resrc.net_bw
              /\ resrc_reply' = <<"OK">> =>
                   /\ c.val >= 0 =>
                        /\ maxmemory' = c.val
                        /\ allocated_resrc'.cache_size = c.val
                   /\ r.val >= 0 =>
                        /\ proposed_rate'.db_rcu = r.val
                        /\ allocated_resrc'.db_rcu = r.val
                   /\ w.val >= 0 =>
                        /\ proposed_rate'.db_wcu = w.val
                        /\ allocated_resrc'.db_wcu = w.val
                   /\ n.val >= 0 =>
                        /\ proposed_rate'.net_bw = n.val
                        /\ allocated_resrc'.net_bw = n.val
     /\ RedisModule_HopperResrcGet(1) =>
          resrc_reply' = <<"Array", allocated_resrc.cache_size,
                           allocated_resrc.db_rcu, allocated_resrc.db_wcu,
                           allocated_resrc.net_bw>>
    ]_vars

\* after SETs that skipped some dimensions: db_rcu was set to 3 and back to
\* 0, db_wcu was set to 3, cache_size and net_bw were never set
C22_Witness ==
  /\ resrc_reply = <<"OK">>
  /\ allocated_resrc = [cache_size |-> 0, db_rcu |-> 0, db_wcu |-> 3,
                        net_bw |-> 0]
  /\ proposed_rate = [db_rcu |-> 0, db_wcu |-> 3, net_bw |-> 1000000000]
  /\ maxmemory = 0


\* C23: CONFIG.SET ghost.range with any three unsigned arguments completes
\* without fault and stores tick, min_tick and max_tick as the arguments
\* rounded down to multiples of 32, max_tick lowered further so that
\* max_tick - min_tick is a non-negative multiple of tick; arguments with
\* tick < 32 and with max_tick < min_tick included.
C23_GhostRange ==
  [][\A t \in RangeTickArgs, lo \in RangeMinTickArgs,
        hi \in RangeMaxTickArgs, div0 \in DivByZero :
       HopperConfigSet_ghost_range(t, lo, hi, div0) =>
         /\ ~ghost_hist'.fault
         /\ ghost_config'.tick = round_tick(t)
         /\ ghost_config'.min_tick = round_tick(lo)
         /\ ghost_config'.max_tick <= round_tick(hi)
         /\ ghost_config'.max_tick >= ghost_config'.min_tick
         /\ \E k \in 0..round_tick(hi) :
              ghost_config'.max_tick - ghost_config'.min_tick
                = k * ghost_config'.tick]_vars


\* C24: check_sanity fails for every curve whose ticks are not strictly
\* increasing (two equal consecutive ticks included), whose miss ratios are
\* not all within [0, 1], or whose miss ratios increase at some index, and
\* succeeds for every curve that satisfies the three conditions.  A curve
\* has one miss ratio per tick and at least one tick.
C24_SanityCheck ==
  (/\ mrc_sane # "none"
   /\ Len(mrc_curve.ticks) > 0
   /\ Len(mrc_curve.ticks) = Len(mrc_curve.miss_ratios)) =>
    LET n == Len(mrc_curve.ticks)
        increasing ==
          \A i \in 1..(n - 1) : mrc_curve.ticks[i] < mrc_curve.ticks[i + 1]
        within ==
          \A i \in 1..n : /\ QLe(QZero, mrc_curve.miss_ratios[i])
                          /\ QLe(mrc_curve.miss_ratios[i], QOne)
        falling ==
          \A i \in 1..(n - 1) :
            QLe(mrc_curve.miss_ratios[i + 1], mrc_curve.miss_ratios[i])
    IN  (mrc_sane = "ok") <=> (increasing /\ within /\ falling)


\* a step of do_harvest that commits a trade
C25_Commits ==
  /\ alloc_pc = "harvest"
  /\ alloc_hist'.last = "trade"
  /\ alloc_hist'.trades = alloc_hist.trades + 1

\* the stateless part of a commit: the relinquisher gives up its relinquish
\* offer, the compensator gains its compensate offer (net_bw only when net
\* is tracked), and no other tenant's allocation changes
C25_Offers(r, c) ==
  /\ r # c
  /\ tenants'[r].resrc.stateless.db_rcu =
       QSub(tenants[r].resrc.stateless.db_rcu, tenants[r].rcu_delta_relinq)
  /\ tenants'[c].resrc.stateless.db_rcu =
       QAdd(tenants[c].resrc.stateless.db_rcu, tenants[c].rcu_delta_compen)
  /\ tenants'[r].resrc.stateless.net_bw =
       IF alloc_total_net_bw
         THEN QSub(tenants[r].resrc.stateless.net_bw,
                   tenants[r].net_delta_relinq)
         ELSE tenants[r].resrc.stateless.net_bw
  /\ tenants'[c].resrc.stateless.net_bw =
       IF alloc_total_net_bw
         THEN QAdd(tenants[c].resrc.stateless.net_bw,
                   tenants[c].net_delta_compen)
         ELSE tenants[c].resrc.stateless.net_bw
  /\ tenants'[r].resrc.stateless.db_wcu = tenants[r].resrc.stateless.db_wcu
  /\ tenants'[c].resrc.stateless.db_wcu = tenants[c].resrc.stateless.db_wcu
  /\ \A i \in TenantIdx \ {r, c} : tenants'[i].resrc = tenants[i].resrc

C26_HarvestTerminates ==
  [][alloc_pc = "harvest" =>
          LET use_rcu == harvest.is_rcu_bottleneck
              bottleneck == \/ harvest.is_rcu_bottleneck
                            \/ (alloc_total_net_bw /\ harvest.is_net_bottleneck)
              r == alloc_hist'.relinq
              c == alloc_hist'.compen
              prev == harvest.prev_estimated_improve_ratio
              curr == estimate_bottleneck(
                        [resrc_avail EXCEPT
                           !.db_rcu = QAdd(@, QSub(tenants[r].rcu_delta_relinq,
                                                   tenants[c].rcu_delta_compen)),
                           !.net_bw = QAdd(@, QSub(tenants[r].net_delta_relinq,
                                                   tenants[c].net_delta_compen))]
                      ).estimated_improve_ratio
          IN  /\ harvest'.trade_round <= max_trade_round
              /\ alloc_hist'.last \in
                   {"trade", "harvest_cancel", "harvest_nobottleneck"}
              /\ alloc_hist'.last = "trade" =>
                   /\ bottleneck /\ harvest.trade_round < max_trade_round
                   /\ alloc_pc' = "harvest"
                   /\ harvest'.trade_round = harvest.trade_round + 1
                   /\ harvest'.prev_estimated_improve_ratio = curr
                   /\ QLe(QAdd(prev, min_improve_ratio_delta), curr)
                   /\ QLt(prev, curr)
                   /\ r # c
                   /\ IF use_rcu
                        THEN /\ tenants[r].rcu_delta_relinq # relinq_abort_offer
                             /\ tenants[c].rcu_delta_compen # compen_abort_offer
                        ELSE /\ tenants[r].net_delta_relinq # relinq_abort_offer
                             /\ tenants[c].net_delta_compen # compen_abort_offer
              /\ alloc_hist'.last = "harvest_cancel" =>
                   /\ bottleneck /\ harvest.trade_round < max_trade_round
                   /\ QLt(QSub(curr, prev), min_improve_ratio_delta)
                   /\ alloc_pc' = "redistribute"
                   /\ UNCHANGED <<tenants, resrc_avail>>
              /\ alloc_hist'.last = "harvest_nobottleneck" =>
                   /\ ~bottleneck \/ harvest.trade_round >= max_trade_round
                   /\ alloc_pc' = "redistribute"
                   /\ UNCHANGED <<tenants, resrc_avail, harvest>>]_vars

\* the loop has left at a deal below the threshold after two trades
C26_Witness ==
  /\ alloc_hist.last = "harvest_cancel"
  /\ alloc_pc = "redistribute"
  /\ harvest.trade_round = 2
  /\ QLe(QMul(QInt(2), min_improve_ratio_delta),
         harvest.prev_estimated_improve_ratio)


\* C27: in every round of the memshare pass the receiver is the tenant with
\* the largest mr_inc_if_more_cache of all tenants, the donor is the tenant
\* with the smallest mr_dec_if_less_cache among the tenants other than the
\* receiver that can still donate one cache_delta above their reserved
\* floor, and the move is made only if the receiver's mr_inc exceeds the
\* donor's mr_dec.
C27_MemshareSelection ==
  [][(alloc_pc = "memshare"
      /\ alloc_hist'.last \in {"memshare_move", "memshare_stop"}) =>
       LET ts == [i \in TenantIdx |-> update_mr_delta(tenants[i])]
           receiver == alloc_hist'.relinq
           donator == alloc_hist'.compen
       IN  /\ \A i \in TenantIdx :
                QLe(ts[i].mr_inc_if_more_cache,
                    ts[receiver].mr_inc_if_more_cache)
           /\ donator # receiver /\ can_donate(ts[donator])
           /\ \A e \in TenantIdx \ {receiver} :
                can_donate(ts[e]) =>
                  QLe(ts[donator].mr_dec_if_less_cache,
                      ts[e].mr_dec_if_less_cache)
           /\ (alloc_hist'.last = "memshare_move") <=>
                QLt(ts[donator].mr_dec_if_less_cache,
                    ts[receiver].mr_inc_if_more_cache)]_vars


\* what the tasks 1..n have been charged on the RCU limiter
RECURSIVE C28_Charged(_)
C28_Charged(n) ==
  IF n = 0 THEN 0 ELSE wk_task[n].rcu_charged + C28_Charged(n - 1)

\* C28: a Get task costs the RCU limiter exactly 1 unit when the worker
\* submits it and rcu_cost - 1 more when it completes Ok (rcu_cost >= 1, no
\* underflow), rcu_cost in total; a Get that completes with ERR costs the
\* prepaid unit alone; upstream and on both mock paths.  Nothing else is
\* charged to the RCU limiter.
C28_RcuAccounting ==
  /\ \A t \in WorkerTasks :
       LET tk == wk_task[t]
           cost == (WorkerKeySize + tk.val_size) \div 4096 + 1
       IN  /\ tk.type # "GET" => tk.rcu_charged = 0
           /\ tk.type = "GET" =>
                /\ tk.stage = "queued" => tk.rcu_charged = 0
                /\ tk.stage \in {"submitted", "mock_queued"} =>
                     tk.rcu_charged = 1 /\ tk.rcu_at_submit = 1
                /\ (tk.stage = "done" /\ tk.status = "OK") =>
                     /\ cost >= 1 /\ tk.rcu_at_submit = 1
                     /\ tk.rcu_charged = cost
                /\ (tk.stage = "done" /\ tk.status = "ERR") =>
                     tk.rcu_charged = 1 /\ tk.rcu_at_submit = 1
  /\ wk_limiter.rcu.total = C28_Charged(MaxWorkerTasks)

\* one Get has completed Ok with a value of two RCUs, another with ERR
C28_Witness ==
  /\ wk_task[1].type = "GET" /\ wk_task[1].stage = "done"
  /\ wk_task[1].status = "OK" /\ wk_task[1].val_size = 5000
  /\ wk_task[1].rcu_charged = 2
  /\ wk_task[2].type = "GET" /\ wk_task[2].stage = "done"
  /\ wk_task[2].status = "ERR" /\ wk_task[2].rcu_charged = 1
  /\ wk_limiter.rcu.total = 3


\* C29: in an iteration of the worker loop a Get task is popped and
\* submitted only if the RCU wait time read in that iteration is <= 0 and a
\* Set task only if the WCU wait time is <= 0, at most one of each; a Set is
\* charged wcu_cost once, at submission, and nothing on completion; the two
\* limits are independent: the head of a queue is submitted whenever its
\* own limiter permits, whatever the other limiter says.
C29_WorkerLoop ==
  [][/\ (\E ok \in BOOLEAN, v \in WorkerValSizes :
           storage_thread_main_iteration(ok, v)) =>
          LET it == wk_last'
              cost(t) == (WorkerKeySize + wk_task[t].val_size) \div 1024 + 1
          IN  /\ ~wk_mock.mock =>
                   /\ it.rcu_permit <=>
                        RateLimiter_check_wait_time(wk_limiter.rcu,
                                                    wk_now)[1] <= 0
                   /\ it.wcu_permit <=>
                        RateLimiter_check_wait_time(wk_limiter.wcu,
                                                    wk_now)[1] <= 0
              /\ it.get # 0 <=> (it.rcu_permit /\ wk_queue.get # <<>>)
              /\ it.set # 0 <=> (it.wcu_permit /\ wk_queue.set # <<>>)
              /\ wk_queue'.get =
                   IF it.get # 0 THEN Tail(wk_queue.get) ELSE wk_queue.get
              /\ wk_queue'.set =
                   IF it.set # 0 THEN Tail(wk_queue.set) ELSE wk_queue.set
              /\ it.get # 0 =>
                   /\ it.get = Head(wk_queue.get)
                   /\ wk_task'[it.get].stage \in {"submitted", "mock_queued"}
              /\ it.set # 0 =>
                   /\ it.set = Head(wk_queue.set)
                   /\ wk_task'[it.set].stage \in {"submitted", "mock_queued"}
                   /\ wk_task'[it.set].wcu_charged = cost(it.set)
              /\ wk_limiter'.wcu.total =
                   wk_limiter.wcu.total
                     + (IF it.set # 0 THEN cost(it.set) ELSE 0)
     /\ \A t \in WorkerTasks :
          wk_task'[t].wcu_charged # wk_task[t].wcu_charged =>
            /\ wk_task[t].type = "SET" /\ wk_task[t].stage = "queued"
            /\ wk_last'.set = t
     /\ wk_limiter'.wcu.total # wk_limiter.wcu.total =>
          \E ok \in BOOLEAN, v \in WorkerValSizes :
            storage_thread_main_iteration(ok, v)]_vars

\* an iteration submitted a Set while the RCU limiter was throttling, and
\* the Set has since completed at the one charge of 5 WCUs
C29_Witness ==
  /\ ~wk_last.rcu_permit /\ wk_last.wcu_permit
  /\ wk_last.set = 2 /\ wk_last.get = 0
  /\ wk_task[1].type = "GET" /\ wk_task[1].rcu_charged >= 1
  /\ wk_task[2].stage = "done" /\ wk_task[2].val_size = 5000
  /\ wk_task[2].wcu_charged = 5
  /\ wk_limiter.wcu.total = 5


\* C30: update_time_frame rolls over exactly when the time elapsed since
\* the frame begin is >= F (0.37 s); a rollover zeroes the progress and
\* moves the frame begin to now - (elapsed mod F), so that after every
\* check_wait_time call 0 <= now - frame_begin < F and the frame begin is
\* the initial begin plus a whole number of frames; when elapsed < F the
\* frame begin, the progress and the rate are left as they were.
C30_FrameRollover ==
  fr_last.called =>
    LET F == (TIME_FRAME_LEN_SEC[1] * TicksPerSec) \div TIME_FRAME_LEN_SEC[2]
        before == fr_last.before
        elapsed == fr_last.now - before.time_frame_begin
        after_call == update_time_frame(before, fr_last.now)
    IN  /\ elapsed >= F =>
             /\ after_call.time_frame_progress = 0
             /\ after_call.time_frame_begin = fr_last.now - (elapsed % F)
        /\ elapsed < F =>
             /\ after_call.time_frame_begin = before.time_frame_begin
             /\ after_call.time_frame_progress = before.time_frame_progress
             /\ after_call.rate = before.rate
        /\ 0 <= fr_last.now - after_call.time_frame_begin
        /\ fr_last.now - after_call.time_frame_begin < F
        /\ after_call.time_frame_begin % F = 0

(***************************************************************************)
(* The pipeline without evictions, native writes, upstream failures, the   *)
(* mock and SETC: only GET and SET commands, the worker and the successful *)
(* completions.                                                            *)
(***************************************************************************)
InitCoherent == Init /\ ~mock

NextCoherent ==
  \/ \E k \in Keys : HopperGet(k)
  \/ \E k \in Keys, v \in Values : HopperSet(k, v)
  \/ \E rcu_ok, wcu_ok \in BOOLEAN : storage_thread_main(rcu_ok, wcu_ok)
  \/ \E t \in ClientIds : process_task_get_success(t)
  \/ \E t \in ClientIds : process_task_set_success(t)
  \/ \E t \in ClientIds : storage_callback(t)
  \/ \E c \in ClientIds : inflight_callback(c)
  \/ \E t \in ClientIds : reply_callback(t)

SpecCoherent == InitCoherent /\ [][NextCoherent]_vars

\* both task queues empty, nothing outstanding upstream, no callback pending,
\* empty registry
C31_Quiescent ==
  /\ task_get_queue = <<>> /\ task_set_queue = <<>>
  /\ \A t \in ClientIds : task[t].stage \in {"none", "done"}
  /\ \A c \in ClientIds : client[c].cmd # "none" => client[c].reply # NoReply
  /\ inflight_map = {}

\* C31: for every setting of cache.admit_write, without evictions and
\* upstream failures, in every quiescent state every key present in the cache
\* holds the value the table holds for it.
C31_EventualCoherence ==
  C31_Quiescent =>
    \A k \in Keys : cache[k] # KEY_EMPTY => cache[k] = upstream[k]

(***************************************************************************)
(* The command thread with its accounting, the worker and the upstream     *)
(* completions.                                                            *)
(***************************************************************************)
InitCmd == Init /\ ~mock

NextCmd ==
  \/ CmdTick
  \/ \E k \in Keys : RedisModule_HopperGet(k)
  \/ \E k \in Keys, v \in Values : RedisModule_HopperSet(k, v)
  \/ \E argc \in {2, 3}, k \in Keys, v \in Values :
       RedisModule_HopperSetC(argc, k, v)
  \/ \E rcu_ok, wcu_ok \in BOOLEAN : storage_thread_main(rcu_ok, wcu_ok)
  \/ \E t \in ClientIds : process_task_get_success(t)
  \/ \E t \in ClientIds : process_task_get_failure(t)
  \/ \E t \in ClientIds : process_task_set_success(t)
  \/ \E t \in ClientIds : get_storage_callback(t)
  \/ \E c \in ClientIds : get_inflight_callback(c)
  \/ \E t \in ClientIds : reply_callback(t)

SpecCmd == InitCmd /\ [][NextCmd]_vars

ConservingDemands ==
  { SVec(QInt(4), QInt(2), QInt(16)), SVec(QInt(1), QInt(4), QInt(4)),
    SVec(QInt(1), QZero, QInt(4)) }
ConservingBases == { BaseStateless, SVec(QInt(2), QInt(8), QInt(16)) }

InitConserving ==
  /\ AllocInit /\ policy.harvest /\ policy.conserving
  /\ RateIdle /\ AuxIdle /\ PipeInit /\ admit_write = TRUE /\ ~mock

NextConserving ==
  \/ \E d \in ConservingDemands, c \in CacheSizes, b \in ConservingBases,
        m \in Curves, a \in Alphas :
       add_tenant(d, [cache_size |-> c, stateless |-> b], m, a)
  \/ do_alloc_begin
  \/ do_collect_idle
  \/ do_harvest_begin
  \/ do_harvest_round
  \/ do_redistribute

SpecConserving == InitConserving /\ [][NextConserving]_vars

\* the throughput a tenant can attain: the min-ratio of its stateless
\* allocation over its demand projected at the miss ratio of its cache size
attainable_throughput(t) ==
  SMinRatio(t.resrc.stateless, collect_idle_demand(t))

\* the same before do_alloc, from the allocation the tenant was added with
base_throughput(t) == attainable_throughput([t EXCEPT !.resrc = t.base_resrc])

SNonNegative(a) ==
  /\ QLe(QZero, a.db_rcu) /\ QLe(QZero, a.db_wcu) /\ QLe(QZero, a.net_bw)

SPositive(a) ==
  /\ QLt(QZero, a.db_rcu) /\ QLt(QZero, a.db_wcu) /\ QLt(QZero, a.net_bw)

conserving_harvest == policy.harvest /\ policy.conserving /\ Len(tenants) >= 2

\* C33 as stated: with the policy harvest and conserving and at least two
\* tenants, from the begin of do_alloc to the end of the trade loop (that is
\* after idle collection and after every committed trade, for the tenant
\* that gained cache and for the one that lost it) every tenant's attainable
\* throughput is the one it had before do_alloc; after do_alloc it is that
\* throughput times (1 + improve_ratio), the same factor for every tenant;
\* and no stateless component is ever negative.
C33_NoTenantWorseOff ==
  conserving_harvest /\ alloc_pc # "setup" =>
    \A i \in TenantIdx :
      /\ SNonNegative(tenants[i].resrc.stateless)
      /\ alloc_pc \in {"collect", "harvest_begin", "harvest", "redistribute"}
           => attainable_throughput(tenants[i]) = base_throughput(tenants[i])
      /\ alloc_pc = "done"
           => attainable_throughput(tenants[i]) =
                QMul(base_throughput(tenants[i]), QAdd(QOne, improve_ratio))

\* C33 amended: the throughput is kept from the begin of do_alloc to the end
\* of the trade loop and no stateless component is negative, as stated;
\* after do_alloc every tenant's throughput is at least the one before
\* do_alloc times (1 + improve_ratio), and exactly that for a tenant whose
\* projected demand is positive in every dimension.
C33_NoTenantWorseOffAmended ==
  conserving_harvest /\ alloc_pc # "setup" =>
    \A i \in TenantIdx :
      /\ SNonNegative(tenants[i].resrc.stateless)
      /\ alloc_pc \in {"collect", "harvest_begin", "harvest", "redistribute"}
           => attainable_throughput(tenants[i]) = base_throughput(tenants[i])
      /\ alloc_pc = "done"
           => /\ QLe(QMul(base_throughput(tenants[i]),
                          QAdd(QOne, improve_ratio)),
                     attainable_throughput(tenants[i]))
              /\ SPositive(collect_idle_demand(tenants[i]))
                   => attainable_throughput(tenants[i]) =
                        QMul(base_throughput(tenants[i]),
                             QAdd(QOne, improve_ratio))

\* do_alloc has finished after a committed trade and a redistribution: a
\* tenant without db_wcu demand gained more than the improvement ratio, a
\* tenant with demand in every dimension exactly that
C33_Witness ==
  /\ conserving_harvest /\ alloc_pc = "done"
  /\ alloc_hist.trades > 0 /\ alloc_hist.last = "redistribute"
  /\ QLt(QZero, improve_ratio)
  /\ \E i, j \in TenantIdx :
       /\ tenants[i].resrc.cache_size # tenants[i].base_resrc.cache_size
       /\ QLt(QMul(base_throughput(tenants[i]), QAdd(QOne, improve_ratio)),
              attainable_throughput(tenants[i]))
       /\ SPositive(collect_idle_demand(tenants[j]))

(***************************************************************************)
(* tenant.h: Tenant::collect_idle as the doubles compute it.  The values   *)
(* are fractions with a power of two as denominator; a subtraction can go  *)
(* below zero.                                                             *)
(***************************************************************************)
\* a - b on doubles
fl_sub(a, b) ==
  LET d == IF a[2] > b[2] THEN a[2] ELSE b[2]
      n == a[1] * (d \div a[2]) - b[1] * (d \div b[2])
  IN  IF n >= 0 THEN Q(fl_round(n, FALSE), d) ELSE Q(-fl_round(-n, FALSE), d)

\* the least e with (n * 2^e) \div m of at least Significand + 1 bits
RECURSIVE fl_quot_shift(_, _, _)
fl_quot_shift(n, m, e) ==
  IF (n * Pow2(e)) \div m >= Pow2(Significand + 1) THEN e
  ELSE fl_quot_shift(n, m, e + 1)

\* a / b on doubles, 0 <= a, 0 <= b
fl_quot(a, b) ==
  IF b[1] = 0 THEN QDiv(a, b)
  ELSE IF a[1] = 0 THEN QZero
  ELSE LET r == Q(a[1] * b[2], a[2] * b[1])
           e == fl_quot_shift(r[1], r[2], 0)
           K == Pow2(e)
       IN  Q(fl_round((r[1] * K) \div r[2], (r[1] * K) % r[2] # 0), K)

\* double operator/(const StatelessResrcVec &) on doubles
fl_min_ratio(a, b) ==
  QMin(QMin(fl_quot(a.db_rcu, b.db_rcu), fl_quot(a.db_wcu, b.db_wcu)),
       fl_quot(a.net_bw, b.net_bw))

fl_scale(a, f) == SVec(fl_mul(a.db_rcu, f), fl_mul(a.db_wcu, f),
                       fl_mul(a.net_bw, f))

fl_minus(a, b) == SVec(fl_sub(a.db_rcu, b.db_rcu), fl_sub(a.db_wcu, b.db_wcu),
                       fl_sub(a.net_bw, b.net_bw))

\* the demand of collect_idle, projected at the current miss ratio
fl_collect_idle_demand(t) ==
  LET mr == fl_get_miss_ratio(t.mrc, t.resrc.cache_size)
      d == t.demand_cacheless
  IN  SVec(fl_mul(d.db_rcu, mr), d.db_wcu,
           IF alloc_total_net_bw
             THEN fl_mul(d.net_bw,
                         fl_add(mr, fl_mul(fl_sub(QOne, t.net_bw_alpha),
                                           fl_sub(QOne, mr))))
             ELSE d.net_bw)

\* tp = resrc.stateless / demand
fl_collect_idle_tp(t) ==
  fl_min_ratio(t.resrc.stateless, fl_collect_idle_demand(t))

\* used = demand * tp
fl_collect_idle_used(t) ==
  fl_scale(fl_collect_idle_demand(t), fl_collect_idle_tp(t))

\* the tenants collect_idle is called on: demands as the literals 9.9, 4.7
\* and the like, whole allocations
CollectDemands ==
  { SVec(fl(Q(rcu, 10)), fl(Q(wcu, 10)), QInt(4)) :
      rcu \in {8, 47, 99}, wcu \in {2, 5} }
CollectStateless == { SVec(QInt(r), QInt(2), QInt(16)) : r \in {2, 5, 10} }
CollectAlphas == { QZero, Q(1, 2), QOne }
CollectTenants ==
  { [demand_cacheless |-> d,
     resrc |-> [cache_size |-> c, stateless |-> s],
     mrc |-> m, net_bw_alpha |-> a] :
      d \in CollectDemands, c \in CacheSizes, s \in CollectStateless,
      m \in Curves, a \in CollectAlphas }

\* Tenant::collect_idle
collect_idle_double(t) ==
  /\ ~collect_call.done
  /\ LET used == fl_collect_idle_used(t)
         idle == fl_minus(t.resrc.stateless, used)
     IN  collect_call' = [done |-> TRUE, before |-> t,
                          after |-> [t EXCEPT !.resrc.stateless = used],
                          idle |-> idle]
  /\ UNCHANGED <<not_post, tq, storage_worker, config>>

InitCollect ==
  /\ AllocInit /\ policy.harvest /\ policy.conserving
  /\ RateIdle /\ MrcIdle /\ GhostIdle /\ BarrierIdle
  /\ ResrcIdle /\ WorkerIdle /\ FrameIdle /\ CmdIdle
  /\ CollectCallIdle /\ TaskQueueIdle /\ StorageWorkerIdle /\ ConfigIdle
  /\ PipeInit /\ admit_write = TRUE /\ ~mock

NextCollect == \E t \in CollectTenants : collect_idle_double(t)

SpecCollect == InitCollect /\ [][NextCollect]_vars

\* C34: collect_idle splits the stateless allocation R of a tenant into
\* used + idle with used = demand * tp: the idle vector it returns is
\* non-negative in every component and zero in at least one (the
\* bottleneck), idle + used is the R the tenant had, and the cache size is
\* unchanged.
C34_CollectIdleSplit ==
  collect_call.done =>
    LET R == collect_call.before.resrc.stateless
        used == collect_call.after.resrc.stateless
        idle == collect_call.idle
    IN  /\ used = fl_collect_idle_used(collect_call.before)
        /\ SNonNegative(idle)
        /\ QZero \in {idle.db_rcu, idle.db_wcu, idle.net_bw}
        /\ fl_add(idle.db_rcu, used.db_rcu) = R.db_rcu
        /\ fl_add(idle.db_wcu, used.db_wcu) = R.db_wcu
        /\ fl_add(idle.net_bw, used.net_bw) = R.net_bw
        /\ collect_call.after.resrc.cache_size =
             collect_call.before.resrc.cache_size

(***************************************************************************)
(* C35: do_alloc conserves the total cache size under every policy.        *)
(***************************************************************************)
RECURSIVE cache_total_from(_, _)
cache_total_from(ts, i) ==
  IF i > Len(ts) THEN 0
  ELSE ts[i].resrc.cache_size + cache_total_from(ts, i + 1)

\* the cache sizes of all tenants summed
cache_total(ts) == cache_total_from(ts, 1)

\* a step of do_alloc that changes some tenant's cache size moves exactly
\* cache_delta from one tenant, which held that much, to a different one
cache_moves_one_delta ==
  (\E i \in TenantIdx :
     tenants'[i].resrc.cache_size # tenants[i].resrc.cache_size) =>
    \E from, to \in TenantIdx :
      /\ from # to
      /\ tenants[from].resrc.cache_size >= cache_delta
      /\ tenants'[from].resrc.cache_size =
           tenants[from].resrc.cache_size - cache_delta
      /\ tenants'[to].resrc.cache_size =
           tenants[to].resrc.cache_size + cache_delta
      /\ \A i \in TenantIdx \ {from, to} :
           tenants'[i].resrc.cache_size = tenants[i].resrc.cache_size

\* C35: under every policy, from the begin of do_alloc to its end the cache
\* sizes of the tenants add up to the total they were added with, every
\* tenant's cache size differs from the one it was added with by a whole
\* number of cache_delta and has not wrapped below zero; and every step
\* that changes a cache size (a harvest trade, a memshare move) takes
\* exactly cache_delta from one tenant and gives it to a different one.
C35_CacheConserved ==
  /\ [](alloc_pc # "setup" =>
          /\ cache_total(tenants) = total_resrc.cache_size
          /\ \A i \in TenantIdx :
               /\ tenants[i].resrc.cache_size <= total_resrc.cache_size
               /\ (tenants[i].resrc.cache_size
                     - tenants[i].base_resrc.cache_size) % cache_delta = 0)
  /\ [][alloc_pc # "setup" => cache_moves_one_delta]_vars

\* do_alloc has ended after cache moved between two tenants, under the
\* memshare policy or by a harvest trade
C35_Witness ==
  /\ alloc_pc = "done" /\ Len(tenants) >= 2
  /\ alloc_hist.moves + alloc_hist.trades >= 2
  /\ \E i \in TenantIdx :
       tenants[i].resrc.cache_size > tenants[i].base_resrc.cache_size

(***************************************************************************)
(* C36: the memshare pass terminates.  do_alloc runs on the caller's       *)
(* thread and the loop of do_memshare neither blocks nor waits, so an      *)
(* iteration that can run does run: weak fairness of do_memshare_round     *)
(* (WF_vars(do_memshare_round), stated without ENABLED).                   *)
(***************************************************************************)
InitMemshare == InitAlloc /\ policy.memshare

NextMemshare ==
  \/ \E d \in Demands, c \in CacheSizes, m \in Curves, a \in Alphas :
       add_tenant(d, [cache_size |-> c, stateless |-> BaseStateless], m, a)
  \/ do_alloc_begin
  \/ do_memshare_round
  \/ do_collect_idle
  \/ do_redistribute

\* do_memshare_round can run exactly when alloc_pc = "memshare" and every
\* run of it changes alloc_hist or alloc_pc, so weak fairness of it is: the
\* pass is outside its loop again and again, or iterates again and again
memshare_fair ==
  []<>(alloc_pc # "memshare") \/ []<><<do_memshare_round>>_vars

SpecMemshare == InitMemshare /\ [][NextMemshare]_vars /\ memshare_fair

RECURSIVE miss_ratio_sum_from(_, _)
miss_ratio_sum_from(ts, i) ==
  IF i > Len(ts) THEN QZero
  ELSE QAdd(get_miss_ratio(ts[i].mrc, ts[i].resrc.cache_size),
            miss_ratio_sum_from(ts, i + 1))

\* the miss ratios of all tenants at their cache sizes, summed
miss_ratio_sum(ts) == miss_ratio_sum_from(ts, 1)

\* C36: the memshare pass terminates although its loop has no round limit:
\* every iteration either moves cache, and then the sum over the tenants of
\* the miss ratio at the tenant's cache size is strictly smaller than
\* before, or leaves the loop, because no tenant other than the receiver
\* can donate or because the receiver's mr_inc does not exceed the donor's
\* mr_dec; and a pass that has begun comes to its end.
C36_MemshareTerminates ==
  /\ [][alloc_pc = "memshare" =>
          LET ts == [i \in TenantIdx |-> update_mr_delta(tenants[i])]
              receiver == alloc_hist'.relinq
              donator == alloc_hist'.compen
          IN  \/ /\ alloc_hist'.last = "memshare_move"
                 /\ alloc_pc' = "memshare"
                 /\ QLt(miss_ratio_sum(tenants'), miss_ratio_sum(tenants))
              \/ /\ alloc_hist'.last = "memshare_nodonor"
                 /\ alloc_pc' # "memshare"
                 /\ \E r \in TenantIdx :
                      \A d \in TenantIdx \ {r} : ~can_donate(ts[d])
                 /\ miss_ratio_sum(tenants') = miss_ratio_sum(tenants)
              \/ /\ alloc_hist'.last = "memshare_stop"
                 /\ alloc_pc' # "memshare"
                 /\ QLe(ts[receiver].mr_inc_if_more_cache,
                        ts[donator].mr_dec_if_less_cache)
                 /\ miss_ratio_sum(tenants') = miss_ratio_sum(tenants)]_vars
  /\ (alloc_pc = "memshare") ~> (alloc_pc # "memshare")

\* a memshare pass has ended after two moves
C36_Witness ==
  /\ policy.memshare /\ alloc_pc # "memshare"
  /\ alloc_hist.moves >= 2
  /\ alloc_hist.last \in {"memshare_stop", "memshare_nodonor"}

(***************************************************************************)
(* C37: no task is starved by the rate limiter.  The worker thread runs    *)
(* its loop for as long as storage_thread_running holds and sleeps at most *)
(* storage_thread_poll_freq_sec between two iterations, and the clock      *)
(* goes on: weak fairness of the iteration and of the clock.  The limiter  *)
(* and the mock queue look at differences of times only, so the clock is   *)
(* kept small by counting from the begin of the older of the two frames;   *)
(* MaxPollFrames bounds how long the worker stays away.                    *)
(***************************************************************************)
MaxPollFrames == 1

\* the begin of the older frame
worker_epoch ==
  IF wk_limiter.rcu.time_frame_begin < wk_limiter.wcu.time_frame_begin
    THEN wk_limiter.rcu.time_frame_begin
    ELSE wk_limiter.wcu.time_frame_begin

\* the clock advances; times are counted from worker_epoch afterwards
WorkerClock ==
  /\ wk_now - worker_epoch < MaxPollFrames * TIME_FRAME_LEN
  /\ wk_now' = wk_now + 1 - worker_epoch
  /\ wk_limiter' =
       [wk_limiter EXCEPT !.rcu.time_frame_begin = @ - worker_epoch,
                          !.wcu.time_frame_begin = @ - worker_epoch]
  /\ wk_task' = [t \in WorkerTasks |->
                   IF wk_task[t].stage = "mock_queued"
                     THEN [wk_task[t] EXCEPT !.ready_ts = @ - worker_epoch]
                     ELSE wk_task[t]]
  /\ UNCHANGED <<wk_mock, wk_queue, wk_last>>
  /\ UNCHANGED not_worker

\* one iteration of the worker loop, whatever the table answers
worker_iterates ==
  \E ok \in BOOLEAN, v \in WorkerValSizes : storage_thread_main_iteration(ok, v)

NextWorkerFair ==
  \/ WorkerClock
  \/ \E t \in WorkerTasks : get_async(t)
  \/ \E t \in WorkerTasks, v \in WorkerValSizes : set_async(t, v)
  \/ worker_iterates
  \/ \E t \in WorkerTasks, ok \in BOOLEAN, v \in WorkerValSizes :
       getAsync_callback(t, ok, v)
  \/ \E t \in WorkerTasks, ok \in BOOLEAN : putAsync_callback(t, ok)

SpecWorkerFair ==
  /\ InitWorker /\ [][NextWorkerFair]_vars
  /\ WF_vars(worker_iterates) /\ WF_vars(WorkerClock)

\* C37: with a positive rate and the worker running, every task pushed to
\* the Get queue or the Set queue is eventually popped and submitted
\* (upstream, or to the mock queue), whatever earlier tasks have cost.
C37_NoStarvation ==
  \A t \in WorkerTasks :
    (wk_task[t].stage = "queued") ~> (wk_task[t].stage # "queued")

\* two Set tasks of 5 WCU each, more than a whole frame's budget, have both
\* been submitted: the second one had to wait for a rollover
C37_Witness ==
  /\ wk_limiter.wcu.rate > 0
  /\ \A t \in WorkerTasks :
       /\ wk_task[t].type = "SET" /\ wk_task[t].stage # "queued"
       /\ wk_task[t].wcu_charged > wk_limiter.wcu.rate * TIME_FRAME_LEN

(***************************************************************************)
(* task.h: TaskQueue under the two threads that use it.  The command       *)
(* thread calls push (storage::get_async, set_async), the worker thread    *)
(* calls pop and hands what it got to process_task_get / process_task_set. *)
(* A task is known by its number.                                          *)
(***************************************************************************)
MaxQueueTasks == 3

\* a pop that takes the task pushed last
queue_back(q) == q[Len(q)]

\* queue.front()
queue_front(q) == Head(q)

\* pthread_spin_lock returns once the lock is free
pthread_spin_lock(thread) ==
  /\ tq.queue_lock = "unlocked"
  /\ tq' = [tq EXCEPT !.queue_lock = thread,
                      !.cmd_pc = IF thread = "cmd" THEN "locked" ELSE @,
                      !.worker_pc = IF thread = "worker" THEN "locked" ELSE @]

\* get_async(t) / set_async(t): the command thread enters push(t)
TaskQueue_push_call ==
  /\ tq.cmd_pc = "idle" /\ tq.next < MaxQueueTasks
  /\ tq' = [tq EXCEPT !.cmd_pc = "lock", !.cmd_t = tq.next + 1,
                      !.next = @ + 1]
  /\ UNCHANGED <<not_post, collect_call, storage_worker, config>>

TaskQueue_push_lock ==
  /\ tq.cmd_pc = "lock"
  /\ pthread_spin_lock("cmd")
  /\ UNCHANGED <<not_post, collect_call, storage_worker, config>>

\* queue.push(t)
TaskQueue_push_push ==
  /\ tq.cmd_pc = "locked"
  /\ tq' = [tq EXCEPT !.queue = Append(@, tq.cmd_t),
                      !.pushed = Append(@, tq.cmd_t),
                      !.cmd_pc = "unlock"]
  /\ UNCHANGED <<not_post, collect_call, storage_worker, config>>

TaskQueue_push_unlock ==
  /\ tq.cmd_pc = "unlock"
  /\ tq' = [tq EXCEPT !.queue_lock = "unlocked", !.cmd_pc = "idle",
                      !.cmd_t = 0]
  /\ UNCHANGED <<not_post, collect_call, storage_worker, config>>

\* the worker thread enters pop(): Task_t *t = nullptr
TaskQueue_pop_call ==
  /\ tq.worker_pc = "idle"
  /\ tq' = [tq EXCEPT !.worker_pc = "lock", !.worker_t = 0]
  /\ UNCHANGED <<not_post, collect_call, storage_worker, config>>

TaskQueue_pop_lock ==
  /\ tq.worker_pc = "lock"
  /\ pthread_spin_lock("worker")
  /\ UNCHANGED <<not_post, collect_call, storage_worker, config>>

\* if (!queue.empty()) t = queue.front();
TaskQueue_pop_front ==
  /\ tq.worker_pc = "locked"
  /\ tq' = IF tq.queue # <<>>
             THEN [tq EXCEPT !.worker_t = queue_front(tq.queue),
                             !.worker_pc = "pop"]
             ELSE [tq EXCEPT !.worker_pc = "unlock"]
  /\ UNCHANGED <<not_post, collect_call, storage_worker, config>>

\* queue.pop()
TaskQueue_pop_pop ==
  /\ tq.worker_pc = "pop"
  /\ tq' = [tq EXCEPT !.queue = Tail(@), !.worker_pc = "unlock"]
  /\ UNCHANGED <<not_post, collect_call, storage_worker, config>>

TaskQueue_pop_unlock ==
  /\ tq.worker_pc = "unlock"
  /\ tq' = [tq EXCEPT !.queue_lock = "unlocked", !.worker_pc = "return"]
  /\ UNCHANGED <<not_post, collect_call, storage_worker, config>>

\* storage_thread_main: if (t) process_task_get(t) / process_task_set(t)
TaskQueue_pop_return ==
  /\ tq.worker_pc = "return"
  /\ tq' = [tq EXCEPT !.worker_pc = "idle", !.worker_t = 0,
                      !.submitted = IF tq.worker_t # 0
                                      THEN Append(@, tq.worker_t) ELSE @]
  /\ UNCHANGED <<not_post, collect_call, storage_worker, config>>

InitTaskQueue ==
  /\ TaskQueueIdle /\ CollectCallIdle /\ StorageWorkerIdle /\ ConfigIdle
  /\ CmdIdle
  /\ ResrcIdle /\ WorkerIdle /\ FrameIdle /\ MrcIdle /\ GhostIdle
  /\ BarrierIdle /\ AllocIdle /\ RateIdle
  /\ PipeInit /\ admit_write = TRUE /\ ~mock

NextTaskQueue ==
  \/ TaskQueue_push_call
  \/ TaskQueue_push_lock
  \/ TaskQueue_push_push
  \/ TaskQueue_push_unlock
  \/ TaskQueue_pop_call
  \/ TaskQueue_pop_lock
  \/ TaskQueue_pop_front
  \/ TaskQueue_pop_pop
  \/ TaskQueue_pop_unlock
  \/ TaskQueue_pop_return

SpecTaskQueue == InitTaskQueue /\ [][NextTaskQueue]_vars

\* C38: with the command thread pushing and the worker thread popping at
\* the same time, what the worker has submitted is, task by task and in the
\* same order, the begin of what was pushed: no task is delivered twice or
\* out of turn, and a task neither submitted nor held by the worker is
\* still in the queue at its place.
C38_FifoExactlyOnce ==
  /\ Len(tq.submitted) <= Len(tq.pushed)
  /\ \A i \in 1..Len(tq.submitted) : tq.submitted[i] = tq.pushed[i]
  /\ LET held == IF tq.worker_pc \in {"unlock", "return"} /\ tq.worker_t # 0
                   THEN <<tq.worker_t>> ELSE <<>>
     IN  tq.submitted \o held \o tq.queue = tq.pushed

\* the worker is between front() and pop() with a task submitted before,
\* while the command thread spins on the lock with the next task in hand
C38_Witness ==
  /\ tq.worker_pc = "pop" /\ tq.cmd_pc = "lock"
  /\ Len(tq.submitted) >= 1 /\ tq.cmd_t > tq.worker_t

(***************************************************************************)
(* storage.cpp: destroy() against the running worker, with the mocked      *)
(* table (config::dynamo::mock).  storage_thread_running is a plain bool   *)
(* that destroy() writes and the loop reads without synchronisation: a     *)
(* test of the loop after the write sees either value.                     *)
(***************************************************************************)
\* while (storage_thread_running) { ... }: the test passes and the body runs
storage_thread_main_loop(seen, ok, val_size) ==
  /\ storage_worker.storage_thread = "running"
  /\ seen \in {storage_worker.storage_thread_running, TRUE}
  /\ seen
  /\ storage_thread_main_iteration(ok, val_size)

\* the test fails: return nullptr
storage_thread_main_return ==
  /\ storage_worker.storage_thread = "running"
  /\ ~storage_worker.storage_thread_running
  /\ storage_worker' = [storage_worker EXCEPT !.storage_thread = "returned"]
  /\ UNCHANGED <<not_post, collect_call, tq, config>>

\* destroy(): storage_thread_running = false
destroy_stop ==
  /\ storage_worker.storage_thread_running
  /\ storage_worker' = [storage_worker EXCEPT
                          !.storage_thread_running = FALSE]
  /\ UNCHANGED <<not_post, collect_call, tq, config>>

\* destroy(): pthread_join returns, delete db
destroy_join ==
  /\ ~storage_worker.storage_thread_running
  /\ storage_worker.storage_thread = "returned"
  /\ storage_worker' = [storage_worker EXCEPT !.storage_thread = "joined",
                                              !.db = FALSE]
  /\ UNCHANGED <<not_post, collect_call, tq, config>>

InitShutdown == InitWorker /\ wk_mock.mock

\* the command thread submits only while the module is loaded
NextShutdown ==
  \/ WorkerTick
  \/ \E t \in WorkerTasks :
       storage_worker.storage_thread_running /\ get_async(t)
  \/ \E t \in WorkerTasks, v \in WorkerValSizes :
       storage_worker.storage_thread_running /\ set_async(t, v)
  \/ \E seen \in BOOLEAN, ok \in BOOLEAN, v \in WorkerValSizes :
       storage_thread_main_loop(seen, ok, v)
  \/ storage_thread_main_return
  \/ destroy_stop
  \/ destroy_join

SpecShutdown == InitShutdown /\ [][NextShutdown]_vars

\* C39: once destroy() has joined the worker, no task that the worker had
\* placed on the mock-dynamo queue is still there without a terminal
\* status: each has been completed and its client woken.
C39_ShutdownDrains ==
  storage_worker.storage_thread = "joined" =>
    \A t \in WorkerTasks :
      wk_task[t].stage # "mock_queued" /\ wk_queue.mock = <<>>

(***************************************************************************)
(* config.cpp: HOPPER.CONFIG.SET.  A string is the sequence of its         *)
(* characters; argv[i] below is argv[i] of the handler, argv[0] being the  *)
(* command's name.                                                         *)
(***************************************************************************)
MaxConfigCalls == 2

\* the value of a character as unsigned char
Ord ==
  ("." :> 46) @@ ("0" :> 48) @@ ("1" :> 49) @@ ("2" :> 50) @@
  ("3" :> 51) @@ ("4" :> 52) @@ ("5" :> 53) @@ ("6" :> 54) @@
  ("7" :> 55) @@ ("8" :> 56) @@ ("9" :> 57) @@ ("_" :> 95) @@
  ("a" :> 97) @@ ("b" :> 98) @@ ("c" :> 99) @@ ("d" :> 100) @@
  ("e" :> 101) @@ ("f" :> 102) @@ ("g" :> 103) @@ ("h" :> 104) @@
  ("i" :> 105) @@ ("j" :> 106) @@ ("k" :> 107) @@ ("l" :> 108) @@
  ("m" :> 109) @@ ("n" :> 110) @@ ("o" :> 111) @@ ("p" :> 112) @@
  ("q" :> 113) @@ ("r" :> 114) @@ ("s" :> 115) @@ ("t" :> 116) @@
  ("u" :> 117) @@ ("v" :> 118) @@ ("w" :> 119) @@ ("x" :> 120) @@
  ("y" :> 121) @@ ("z" :> 122)

\* s[i] of a C string: past its end stands the terminating 0
char_at(s, i) == IF i <= Len(s) THEN Ord[s[i]] ELSE 0

\* std::strncmp(buf, cstr, len) from the i-th character on: the difference
\* of the first two characters that differ among the first len, 0 if none
\* does or both strings end before
RECURSIVE strncmp_from(_, _, _, _)
strncmp_from(buf, cstr, i, len) ==
  IF i > len THEN 0
  ELSE IF char_at(buf, i) # char_at(cstr, i)
    THEN char_at(buf, i) - char_at(cstr, i)
  ELSE IF char_at(buf, i) = 0 THEN 0
  ELSE strncmp_from(buf, cstr, i + 1, len)

\* utils::rstr::strcmp(rstr, cstr): len is the length of the Redis string
strcmp(rstr, cstr) == strncmp_from(rstr, cstr, 1, Len(rstr))

\* the literals of the handler
dynamo_table_name == <<"d", "y", "n", "a", "m", "o", ".", "t", "a", "b", "l", "e">>
dynamo_mock_name == <<"d", "y", "n", "a", "m", "o", ".", "m", "o", "c", "k">>
cache_admit_write_name == <<"c", "a", "c", "h", "e", ".", "a", "d", "m", "i", "t", "_", "w", "r", "i", "t", "e">>
ghost_range_name == <<"g", "h", "o", "s", "t", ".", "r", "a", "n", "g", "e">>
policy_alloc_total_net_bw_name == <<"p", "o", "l", "i", "c", "y", ".", "a", "l", "l", "o", "c", "_", "t", "o", "t", "a", "l", "_", "n", "e", "t", "_", "b", "w">>
disable_str == <<"d", "i", "s", "a", "b", "l", "e">>
image_str == <<"i", "m", "a", "g", "e">>
format_str == <<"f", "o", "r", "m", "a", "t">>
true_str == <<"t", "r", "u", "e">>
false_str == <<"f", "a", "l", "s", "e">>

\* RedisModule_StringToULongLong / RedisModule_StringToLongLong on a string
\* without sign: the number its decimal digits spell, REDISMODULE_ERR for
\* the empty string and for any other character
RECURSIVE digits_value(_)
digits_value(s) ==
  IF s = <<>> THEN 0
  ELSE 10 * digits_value(SubSeq(s, 1, Len(s) - 1)) + (Ord[s[Len(s)]] - 48)

StringToULongLong(s) ==
  IF s # <<>> /\ \A i \in 1..Len(s) : Ord[s[i]] \in 48..57
    THEN [ret |-> "OK", value |-> digits_value(s)]
    ELSE [ret |-> "ERR", value |-> 0]

\* every config variable
ConfigSnapshot ==
  [table |-> config.table, mock |-> mock, admit_write |-> admit_write,
   mock_image |-> config.mock_image, mock_format |-> config.mock_format,
   ghost_config |-> ghost_config, ghost_cache |-> ghost_cache]

\* the handler returns with this reply, having made config of c
ConfigReturn(argc, argv, reply, c) ==
  config' = [c EXCEPT !.calls = @ + 1,
                      !.last = [called |-> TRUE, argc |-> argc,
                                argv |-> argv, reply |-> reply,
                                before |-> ConfigSnapshot]]

\* everything CONFIG.SET never touches
config_rest ==
  <<cache, cache_src, inflight_map, begin_assert_ok, task, task_get_queue,
    task_set_queue, upstream, client, next_client, mock_dynamo_queue,
    rate_vars, alloc_vars, mrc_vars, barrier_vars, resrc_vars, worker_vars,
    frame_vars, cmd_vars, collect_call, tq, storage_worker>>

\* CONFIG.SET dynamo.mock ...
HopperConfigSet_dynamo_mock(argc, argv) ==
  /\ UNCHANGED <<admit_write, ghost_vars>>
  /\ IF strcmp(argv[2], disable_str) = 0 THEN
       IF argc # 3
         THEN /\ ConfigReturn(argc, argv, "WrongArity", config)
              /\ UNCHANGED mock
         ELSE /\ mock' = FALSE
              /\ ConfigReturn(argc, argv, "OK", config)
     ELSE IF strcmp(argv[2], image_str) = 0 THEN
       \* init_mock_image(), then load_mock_image file by file: loaded of
       \* them load, the next one (if any) fails with rc
       \E loaded \in 0..(argc - 3), rc \in {-1, -2} :
         LET image == [nullptr |-> FALSE,
                       files |-> config.mock_image.files
                                   \cup {argv[i] : i \in 3..(2 + loaded)}]
             c == [config EXCEPT !.mock_image = image]
         IN  IF loaded < argc - 3
               THEN /\ ConfigReturn(argc, argv,
                                    IF rc = -1
                                      THEN "ERR Failed to open image file"
                                      ELSE "ERR Invalid image file format",
                                    c)
                    /\ UNCHANGED mock
               ELSE /\ rc = -1
                    /\ mock' = TRUE
                    /\ ConfigReturn(argc, argv, "OK", c)
     ELSE IF strcmp(argv[2], format_str) = 0 THEN
       IF argc # 5
         THEN /\ ConfigReturn(argc, argv, "WrongArity", config)
              /\ UNCHANGED mock
       ELSE IF StringToULongLong(argv[3]).ret = "ERR"
         THEN /\ ConfigReturn(argc, argv,
                              "ERR Invalid key_size for <dynamo.mock>",
                              config)
              /\ UNCHANGED mock
       ELSE IF StringToULongLong(argv[4]).ret = "ERR"
         THEN /\ ConfigReturn(argc, argv,
                              "ERR Invalid val_size for <dynamo.mock>",
                              config)
              /\ UNCHANGED mock
       ELSE LET f == update_mock_format(StringToULongLong(argv[3]).value,
                                        StringToULongLong(argv[4]).value)
            IN  IF f.thrown
                  THEN /\ ConfigReturn(argc, argv,
                                       "ERR Ill-formed key-value format",
                                       config)
                       /\ UNCHANGED mock
                  ELSE /\ mock' = TRUE
                       /\ ConfigReturn(argc, argv, "OK",
                            [config EXCEPT !.mock_format = f.mock_format])
     ELSE /\ ConfigReturn(argc, argv,
                          "ERR Invalid option for <dynamo.mock>", config)
          /\ UNCHANGED mock

\* CONFIG.SET cache.admit_write ...
HopperConfigSet_cache_admit_write(argc, argv) ==
  /\ UNCHANGED <<mock, ghost_vars>>
  /\ IF argc # 3
       THEN /\ ConfigReturn(argc, argv, "WrongArity", config)
            /\ UNCHANGED admit_write
     ELSE IF strcmp(argv[2], true_str) = 0
       THEN /\ admit_write' = TRUE
            /\ ConfigReturn(argc, argv, "OK", config)
     ELSE IF strcmp(argv[2], false_str) = 0
       THEN /\ admit_write' = FALSE
            /\ ConfigReturn(argc, argv, "OK", config)
     ELSE /\ ConfigReturn(argc, argv,
                          "ERR Invalid value for <cache.admit_write>", config)
          /\ UNCHANGED admit_write

\* CONFIG.SET ghost.range ...: a trap or a throw of ghost::init() ends the
\* process before any reply
HopperConfigSet_ghost_range_argv(argc, argv) ==
  /\ UNCHANGED <<admit_write, mock>>
  /\ IF argc # 5
       THEN /\ ConfigReturn(argc, argv, "WrongArity", config)
            /\ UNCHANGED ghost_vars
     ELSE IF StringToULongLong(argv[2]).ret = "ERR"
       THEN /\ ConfigReturn(argc, argv,
                            "ERR Invalid value for <ghost.range:tick>", config)
            /\ UNCHANGED ghost_vars
     ELSE IF StringToULongLong(argv[3]).ret = "ERR"
       THEN /\ ConfigReturn(argc, argv,
                            "ERR Invalid value for <ghost.range:min_tick>",
                            config)
            /\ UNCHANGED ghost_vars
     ELSE IF StringToULongLong(argv[4]).ret = "ERR"
       THEN /\ ConfigReturn(argc, argv,
                            "ERR Invalid value for <ghost.range:max_tick>",
                            config)
            /\ UNCHANGED ghost_vars
     ELSE \E div0 \in DivByZero :
            /\ ghost_range_set(StringToULongLong(argv[2]).value,
                               StringToULongLong(argv[3]).value,
                               StringToULongLong(argv[4]).value, div0)
            /\ ConfigReturn(argc, argv,
                            IF ghost_hist'.aborted THEN "none" ELSE "OK",
                            config)

\* RedisModule_HopperConfigSet
RedisModule_HopperConfigSet(argc, argv) ==
  /\ config.calls < MaxConfigCalls
  /\ ~ghost_hist.aborted
  /\ IF argc < 3
       THEN /\ ConfigReturn(argc, argv, "WrongArity", config)
            /\ UNCHANGED <<admit_write, mock, ghost_vars>>
     ELSE IF strcmp(argv[1], dynamo_table_name) = 0 THEN
       /\ UNCHANGED <<admit_write, mock, ghost_vars>>
       /\ IF argc # 3
            THEN ConfigReturn(argc, argv, "WrongArity", config)
            ELSE ConfigReturn(argc, argv, "OK",
                              [config EXCEPT !.table = argv[2]])
     ELSE IF strcmp(argv[1], dynamo_mock_name) = 0
       THEN HopperConfigSet_dynamo_mock(argc, argv)
     ELSE IF strcmp(argv[1], cache_admit_write_name) = 0
       THEN HopperConfigSet_cache_admit_write(argc, argv)
     ELSE IF strcmp(argv[1], ghost_range_name) = 0
       THEN HopperConfigSet_ghost_range_argv(argc, argv)
     ELSE IF strcmp(argv[1], policy_alloc_total_net_bw_name) = 0
       THEN /\ ConfigReturn(argc, argv,
              "ERR <policy.alloc_total_net_bw> is not configurable", config)
            /\ UNCHANGED <<admit_write, mock, ghost_vars>>
     ELSE /\ ConfigReturn(argc, argv, "ERR unrecognized config", config)
          /\ UNCHANGED <<admit_write, mock, ghost_vars>>
  /\ UNCHANGED config_rest

\* the names the handler knows
ConfigNames ==
  {dynamo_table_name, dynamo_mock_name, cache_admit_write_name,
   ghost_range_name, policy_alloc_total_net_bw_name}

\* the arguments of the calls: the names, the empty name, begins of names,
\* a name that continues one and one that is none
ConfigNameArgs ==
  ConfigNames \cup {<<>>, <<"c", "a", "c", "h", "e">>, <<"d">>, <<"g">>,
                    <<"c", "a", "c", "h", "e", ".", "a", "d", "m", "i", "t", "_", "w", "r", "i", "t", "e", "s">>,
                    <<"b", "o", "g", "u", "s">>}

ConfigValueArgs ==
  {true_str, false_str, <<>>, <<"t">>, <<"t", "r", "u", "e", "x">>,
   disable_str, image_str, format_str, <<"4", "0">>, <<"5">>, <<"x">>}

ConfigTailArgs == {<<<<"4", "0">>, <<"7", "0">>>>, <<<<"x">>, <<"7", "0">>>>, <<<<"4", "0">>, <<"x">>>>}

ConfigArgv ==
  {<<<<>>, n>> : n \in ConfigNameArgs}
    \cup {<<<<>>, n, v>> : n \in ConfigNameArgs, v \in ConfigValueArgs}
    \cup {<<<<>>, n, v>> \o t :
            n \in ConfigNameArgs, v \in ConfigValueArgs, t \in ConfigTailArgs}

InitConfig ==
  /\ ConfigInit /\ CollectCallIdle /\ TaskQueueIdle /\ StorageWorkerIdle
  /\ CmdIdle /\ ResrcIdle /\ WorkerIdle /\ FrameIdle /\ MrcIdle /\ GhostInit
  /\ BarrierIdle /\ AllocIdle /\ RateIdle
  /\ PipeInit /\ admit_write = TRUE /\ ~mock

\* a is argv with an empty string in the place of argv[0]
NextConfig ==
  \E a \in ConfigArgv :
    RedisModule_HopperConfigSet(Len(a), Tail(a))

SpecConfig == InitConfig /\ [][NextConfig]_vars

\* the replies that are errors
ConfigErrors ==
  {"ERR unrecognized config", "ERR Invalid value for <cache.admit_write>"}

\* C40: a CONFIG.SET whose config name is not exactly one of the known
\* names is answered 'ERR unrecognized config', and one for
\* cache.admit_write whose value is not exactly "true" or "false" (the
\* empty string, "t") is answered with an error; in both cases every config
\* variable keeps the value it had before the call.
C40_InvalidRejected ==
  config.last.called /\ config.last.argc >= 3 =>
    /\ config.last.argv[1] \notin ConfigNames =>
         /\ config.last.reply = "ERR unrecognized config"
         /\ ConfigSnapshot = config.last.before
    /\ ( /\ config.last.argv[1] = cache_admit_write_name
         /\ config.last.argc = 3
         /\ config.last.argv[2] \notin {true_str, false_str} ) =>
         /\ config.last.reply \in ConfigErrors
         /\ ConfigSnapshot = config.last.before

====
